---- MODULE Spec2Model ----
(***************************************************************************)
(* DeepRuntime tool federation layer: the MCP connection manager           *)
(* (src/src/tools/mcp-adapter.ts) and the registry the engine builds from  *)
(* it (src/src/core/engine.ts); the local tool loader                      *)
(* (src/src/tools/local-loader.ts); the schema translator                  *)
(* (jsonSchemaToZod in mcp-adapter.ts, zodToJsonSchema in serve.ts).       *)
(*                                                                         *)
(* JavaScript runs one handler at a time; an async function gives up       *)
(* control only at an await.  Every action below is one such run: from the *)
(* call or the settling of the awaited promise up to the next await.       *)
(***************************************************************************)
EXTENDS Naturals, Sequences, FiniteSets, TLC

\* ------------------------------------------------------------------ bounds
MaxConnects == 2      \* connect() calls made on the manager
MaxDisconnects == 2   \* disconnect() calls made on the manager
MaxEvents == 2        \* process exits (of a manager's child or of a transport's process)
MaxCalls == 1         \* invocations of remote tools
MaxFiles == 2         \* candidate files in the scanned tools directory
MaxToolInfos == 2     \* tools in one server's list-tools answer
MaxRequests == 2      \* call-tool requests handled in the provider role
MaxSignals == 1       \* SIGINT/SIGTERM deliveries to a command's process
MaxTasks == 1         \* tasks entered at the prompt of the interactive mode
MaxShutdowns == 2     \* engine.shutdown() calls made on an engine
MaxRuns == 1          \* runTask() and runInteractive() calls made on an engine

\* ------------------------------------------------------------------ inputs
\* Configurations: the keys of the mcpServers record, in declaration order.
Configs ==
  { <<>>, <<"a">>, <<"b", "a">>, <<"a", "a_b">> }

\* What each server answers to list-tools when the round trip succeeds.
RemoteListing(s) ==
  CASE s = "a"   -> <<"b_t", "u">>
    [] s = "a_b" -> <<"t">>
    [] OTHER     -> <<"t", "u">>

\* The tools loadLocalTools hands the engine (the template's example tool).
LocalTools == << [name |-> "hello", server |-> ""] >>

VARIABLES
  servers,      \* McpClientManager.servers: configured names, declaration order
  attempts,     \* one record per connectServer() run: processes, client, connection object
  connections,  \* McpClientManager.connections: Map name -> connection, insertion order
  tools,        \* McpClientManager.tools
  cpc, ci, li, latt, cres, nconn,   \* the connect() call in flight
  dpc, di, datt, ndisc,             \* the disconnect() call in flight
  registry,     \* DeepRuntimeEngine.tools
  mcpManager,   \* DeepRuntimeEngine.mcpManager is set (not null)
  listed,       \* history of this.tools since it was last reset: the attempts
                \* whose list-tools round trip succeeded (ok) or failed (fail)
  nev,          \* process exits so far
  call, ncall,  \* the invocation of a remote tool in flight; invocations so far
  dir,          \* the tools directory loadLocalTools scans
  lpc, fi, ltools, loadedNames,     \* the loadLocalTools() call in flight
  linv,         \* the last invocation of a local tool
  out,          \* what the loader, the tools and the provider wrote to stdout and stderr
  zschema, wire, back,              \* a schema, its wire form, the wire form converted back
  toolInfos,    \* the tools of one server's list-tools answer
  spc,          \* the loadAllTools() step working on that answer
  serverTools,  \* the promise of loadServerTools() for that answer
  vpc, request, resp, invoked, nreq,    \* the serve command and its call-tool handler
  cmd,          \* a start or dev command: its options, configuration and environment
  mpc,          \* the command's main flow: the await it is at
  eng,          \* DeepRuntimeEngine's fields
  trace,        \* the lifecycle steps taken so far, in order
  pend,         \* exit codes of the command-level shutdown() calls awaiting engine.shutdown()
  timer,        \* the deadline timer of the start command
  exitCode,     \* the code process.exit() was called with, "none" before
  nsig,         \* signals delivered so far
  rl,           \* DeepRuntimeEngine.readline: "none" (null), "open", or "closed"
                \* once its input stream has ended
  sdc,          \* the engine.shutdown() calls made: where each is in its disconnect()
  ipc           \* the engine.initialize() call in flight: 0 when none, else the
                \* number its connect() has among the connect() calls

managerVars == << servers, attempts, connections, tools, cpc, ci, li, latt, cres, nconn,
                  dpc, di, datt, ndisc, registry, mcpManager, listed, nev >>
callVars == << call, ncall >>
loaderVars == << dir, lpc, fi, ltools, loadedNames, linv, out >>
schemaVars == << zschema, wire, back, toolInfos, spc, serverTools >>
serveVars == << vpc, request, resp, invoked, nreq >>
commandVars == << cmd, mpc, eng, trace, pend, timer, exitCode, nsig, rl >>

\* the provider role and the command orchestrators
roleVars == << serveVars, commandVars >>

shutdownVars == << sdc, ipc >>

\* what the manager's own code does not touch
otherVars == << callVars, loaderVars, schemaVars, roleVars, shutdownVars >>

vars == << managerVars, callVars, loaderVars, schemaVars, roleVars, shutdownVars >>

connectVars == << cpc, ci, li, latt, cres, nconn >>
disconnectVars == << dpc, di, datt, ndisc >>

\* ------------------------------------------------------------------ helpers
StartsWith(s, p) == Len(p) <= Len(s) /\ SubSeq(s, 1, Len(p)) = p

\* createLangChainTool: the namespaced tool name
ToolName(serverName, toolName) == "mcp_" \o serverName \o "_" \o toolName

\* a faulty variant of ServerTools: the listing's order is reversed
ServerToolsReversed(serverName, listing) ==
  [k \in 1..Len(listing) |->
     [name |-> ToolName(serverName, listing[Len(listing) + 1 - k]), server |-> serverName]]

\* loadServerTools: one tool per listed descriptor, in listing order
ServerTools(serverName, listing) ==
  [k \in 1..Len(listing) |->
     [name |-> ToolName(serverName, listing[k]), server |-> serverName]]

\* Map.get(name): position of the entry, 0 when absent
IndexOf(conns, name) ==
  IF \E k \in 1..Len(conns) : conns[k].name = name
  THEN CHOOSE k \in 1..Len(conns) : conns[k].name = name
  ELSE 0

\* Map.set(name, connection): replaces in place, or appends
MapSet(conns, name, att) ==
  LET k == IndexOf(conns, name) IN
  IF k = 0 THEN Append(conns, [name |-> name, att |-> att])
  ELSE [conns EXCEPT ![k] = [name |-> name, att |-> att]]

\* connectServer up to its await: spawn() of the child process, then the
\* transport built from the same command, which starts a process of its own
\* when client.connect(transport) is called.  ok: the command can be spawned.
NewAttempt(name, ok, n) ==
  [ name      |-> name,
    pid       |-> 2 * n - 1,                              \* spawn(config.command, ...)
    child     |-> IF ok THEN "running" ELSE "failed",     \* failed: 'error' still to be emitted
    killed    |-> FALSE,                                  \* ChildProcess.killed
    tpid      |-> 2 * n,                                  \* StdioClientTransport's process
    tp        |-> IF ok THEN "running" ELSE "failed",
    hs        |-> "pending",                              \* client.connect(transport)
    connected |-> FALSE,                                  \* McpConnection.connected
    td        |-> <<>> ]                                  \* teardown steps attempted

\* ------------------------------------------------------------------ queries
GetTools == tools

GetToolNames(tls) == [k \in 1..Len(tls) |-> tls[k].name]

GetConnectionStatus ==
  [s \in {connections[k].name : k \in 1..Len(connections)} |->
     attempts[connections[IndexOf(connections, s)].att].connected]

HasConnections ==
  \E k \in 1..Len(connections) : attempts[connections[k].att].connected

\* ------------------------------------------------------------------ handleDisconnect
PurgeTools(tls, name) ==
  SelectSeq(tls, LAMBDA t : ~StartsWith(t.name, "mcp_" \o name \o "_"))

HandleDisconnectAttempts(atts, conns, name) ==
  IF IndexOf(conns, name) = 0 THEN atts
  ELSE [atts EXCEPT ![conns[IndexOf(conns, name)].att].connected = FALSE]

HandleDisconnectTools(tls, conns, name) ==
  IF IndexOf(conns, name) = 0 THEN tls ELSE PurgeTools(tls, name)

\* ------------------------------------------------------------------ connect()
\* try/catch around connectServer in connect(); around loadServerTools in loadAllTools
ConnectErrorPropagates == FALSE
ConnectErrorCaught == TRUE
ListErrorPropagates == FALSE
ListErrorCaught == TRUE

\* loadAllTools' iterator over the live Map: the next entry after position k
\* whose connection is connected, 0 when the iteration ends
NextConnected(conns, atts, k) ==
  IF \E j \in (k + 1)..Len(conns) : atts[conns[j].att].connected
  THEN CHOOSE j \in (k + 1)..Len(conns) :
         /\ atts[conns[j].att].connected
         /\ \A i \in (k + 1)..(j - 1) : ~atts[conns[i].att].connected
  ELSE 0

\* connect() returns; loadTools' continuation pushes this.mcpManager.getTools(),
\* which throws when shutdown() has set mcpManager to null meanwhile
ConnectReturns(atts, conns, tls, lst) ==
  /\ attempts' = atts
  /\ listed' = lst
  /\ connections' = conns
  /\ tools' = tls
  /\ cpc' = "done"
  /\ cres' = "resolved"
  /\ registry' = IF mcpManager THEN registry \o tls ELSE registry
  /\ UNCHANGED mcpManager
  /\ ci' = 0 /\ li' = 0 /\ latt' = 0

\* connect() rejects; loadTools rejects with it
ConnectRejects(atts, conns, tls, lst) ==
  /\ attempts' = atts
  /\ listed' = lst
  /\ connections' = conns
  /\ tools' = tls
  /\ cpc' = "done"
  /\ cres' = "rejected"
  /\ ci' = 0 /\ li' = 0 /\ latt' = 0
  /\ UNCHANGED << registry, mcpManager >>

\* loadAllTools from position k of the Map on, up to the next await
ListFrom(atts, conns, tls, lst, k) ==
  LET j == NextConnected(conns, atts, k) IN
  IF j = 0
  THEN ConnectReturns(atts, conns, tls, lst)
  ELSE /\ attempts' = atts
       /\ listed' = lst
       /\ connections' = conns
       /\ tools' = tls
       /\ cpc' = "list"
       /\ li' = j
       /\ latt' = conns[j].att
       /\ UNCHANGED << ci, cres, registry, mcpManager >>

\* the for loop of connect() after server i settled: the next connectServer,
\* or loadAllTools (this.tools = [] first)
NextServer(atts, conns, i) ==
  IF i < Len(servers)
  THEN \E ok \in BOOLEAN :
         /\ attempts' = Append(atts, NewAttempt(servers[i + 1], ok, Len(atts) + 1))
         /\ connections' = conns
         /\ ci' = i + 1
         /\ cpc' = "handshake"
         /\ UNCHANGED << tools, li, latt, cres, registry, mcpManager, listed >>
  ELSE ListFrom(atts, conns, <<>>, [ok |-> {}, fail |-> {}], 0)

\* engine.loadTools up to its await of connect(), and connect() up to its
\* first await
ConnectStart ==
  /\ cpc \in {"idle", "done"}
  /\ dpc \in {"idle", "done"}
  /\ nconn < MaxConnects
  /\ nconn' = nconn + 1
  /\ IF servers = <<>>
     THEN /\ cpc' = "done"
          /\ cres' = "resolved"
          /\ registry' = LocalTools \o tools
          /\ mcpManager' = TRUE
          /\ UNCHANGED << attempts, connections, tools, ci, li, latt >>
     ELSE \E ok \in BOOLEAN :
            /\ attempts' = Append(attempts, NewAttempt(servers[1], ok, Len(attempts) + 1))
            /\ ci' = 1
            /\ cpc' = "handshake"
            /\ cres' = "pending"
            /\ registry' = LocalTools
            /\ mcpManager' = TRUE
            /\ UNCHANGED << connections, tools, li, latt >>
  /\ UNCHANGED << servers, disconnectVars, listed, nev >>
  /\ UNCHANGED otherVars

\* client.connect(transport) resolves: the connection is saved.  (A spawn
\* failure is emitted on the next tick, before any promise settles.)
HandshakeResolve ==
  /\ cpc = "handshake"
  /\ attempts[Len(attempts)].child # "failed"
  /\ attempts[Len(attempts)].tp = "running"
  /\ LET n == Len(attempts)
         atts == [attempts EXCEPT ![n].hs = "ok", ![n].connected = TRUE]
         conns == MapSet(connections, attempts[n].name, n)
     IN NextServer(atts, conns, ci)
  /\ UNCHANGED << servers, nconn, disconnectVars, nev >>
  /\ UNCHANGED otherVars

\* a faulty variant of HandshakeReject: the connection is saved before the
\* handshake is awaited
HandshakeRejectSaved ==
  /\ cpc = "handshake"
  /\ attempts[Len(attempts)].child # "failed"
  /\ LET n == Len(attempts)
         atts == [attempts EXCEPT ![n].hs = "fail", ![n].connected = TRUE,
                                  ![n].tp = IF @ = "running" THEN "exited" ELSE @]
     IN NextServer(atts, MapSet(connections, attempts[n].name, n), ci)
  /\ UNCHANGED << servers, nconn, disconnectVars, nev >>
  /\ UNCHANGED otherVars

\* client.connect(transport) rejects: the client closes its transport; the
\* error is caught in connect()
HandshakeReject ==
  /\ cpc = "handshake"
  /\ attempts[Len(attempts)].child # "failed"
  /\ LET n == Len(attempts)
         atts == [attempts EXCEPT ![n].hs = "fail",
                                  ![n].tp = IF @ = "running" THEN "exited" ELSE @]
     IN IF ConnectErrorCaught
        THEN NextServer(atts, connections, ci)
        ELSE ConnectRejects(atts, connections, tools, listed)
  /\ UNCHANGED << servers, nconn, disconnectVars, nev >>
  /\ UNCHANGED otherVars

\* client.listTools() settles for the connection being listed
ListSettle ==
  /\ cpc = "list"
  /\ \E outcome \in {"ok", "reject", "malformed"} :
       /\ outcome = "ok" => attempts[latt].tp = "running"
       /\ LET name == attempts[latt].name
              lst == IF outcome = "ok"
                     THEN [listed EXCEPT !.ok = @ \cup {latt}]
                     ELSE [listed EXCEPT !.fail = @ \cup {latt}]
          IN IF outcome = "ok"
             THEN ListFrom(attempts, connections,
                           tools \o ServerTools(name, RemoteListing(name)), lst, li)
             ELSE IF ListErrorCaught
                  THEN ListFrom(attempts, connections, tools, lst, li)
                  ELSE ConnectRejects(attempts, connections, tools, lst)
  /\ UNCHANGED << servers, nconn, disconnectVars, nev >>
  /\ UNCHANGED otherVars

\* ------------------------------------------------------------------ disconnect()
\* the try/catch around client.close() and around transport.close()
CloseErrorPropagates == FALSE
CloseErrorCaught == TRUE
TransportCloseErrorCaught == TRUE

\* disconnect() returns: the Map and the tool list are cleared;
\* engine.shutdown's continuation drops the manager and the registry
DisconnectReturns(atts) ==
  /\ attempts' = atts
  /\ connections' = <<>>
  /\ tools' = <<>>
  /\ listed' = [ok |-> {}, fail |-> {}]
  /\ registry' = <<>>
  /\ mcpManager' = FALSE
  /\ dpc' = "done"
  /\ di' = 0 /\ datt' = 0

\* disconnect()'s for loop over the live Map from position k on: disconnectServer
\* up to its await of client.close(), or the end of the loop
TeardownFrom(atts, k) ==
  IF k > Len(connections)
  THEN DisconnectReturns(atts)
  ELSE /\ attempts' = [atts EXCEPT ![connections[k].att].td = Append(@, "close")]
       /\ dpc' = "close"
       /\ di' = k
       /\ datt' = connections[k].att
       /\ UNCHANGED << connections, tools, registry, mcpManager, listed >>

\* a faulty variant of KillAndMark: kill('SIGTERM') whatever process.killed says
KillAndMarkUnguarded(c) ==
  [c EXCEPT !.td = Append(@, "kill"),
            !.killed = IF c.child = "running" THEN TRUE ELSE @,
            !.connected = FALSE]

\* connection.process.kill('SIGTERM') unless process.killed (kill() signals,
\* and sets killed, only while the process has not exited), then connected = false
KillAndMark(c) ==
  [c EXCEPT !.td = IF c.killed THEN @ ELSE Append(@, "kill"),
            !.killed = IF ~c.killed /\ c.child = "running" THEN TRUE ELSE @,
            !.connected = FALSE]

DisconnectStart ==
  /\ dpc \in {"idle", "done"}
  /\ ndisc < MaxDisconnects
  /\ ndisc' = ndisc + 1
  /\ TeardownFrom(attempts, 1)
  /\ UNCHANGED << servers, connectVars, nev >>
  /\ UNCHANGED otherVars

\* client.close() settles; transport.close() is called next
CloseSettle ==
  /\ dpc = "close"
  /\ \E ok \in BOOLEAN :
       LET atts == [attempts EXCEPT ![datt].tp = IF ok /\ @ = "running" THEN "exited" ELSE @]
       IN IF ok \/ CloseErrorCaught
          THEN /\ attempts' = [atts EXCEPT ![datt].td = Append(@, "tclose")]
               /\ dpc' = "tclose"
               /\ UNCHANGED << connections, tools, registry, mcpManager, listed, di, datt >>
          ELSE TeardownFrom(atts, di + 1)
  /\ UNCHANGED << servers, connectVars, ndisc, nev >>
  /\ UNCHANGED otherVars

\* transport.close() settles; the child is killed, the connection marked, and
\* the loop goes on
TransportCloseSettle ==
  /\ dpc = "tclose"
  /\ \E ok \in BOOLEAN :
       LET atts == [attempts EXCEPT ![datt].tp = IF ok /\ @ = "running" THEN "exited" ELSE @]
       IN IF ok \/ TransportCloseErrorCaught
          THEN TeardownFrom([atts EXCEPT ![datt] = KillAndMark(@)], di + 1)
          ELSE TeardownFrom(atts, di + 1)
  /\ UNCHANGED << servers, connectVars, ndisc, nev >>
  /\ UNCHANGED otherVars

\* ------------------------------------------------------------------ process events
\* 'exit' of the process spawn() returned (on its own, or after the manager's
\* SIGTERM): handleDisconnect(name)
ChildExit(n) ==
  /\ attempts[n].child = "running"
  /\ nev < MaxEvents
  /\ nev' = nev + 1
  /\ attempts' = HandleDisconnectAttempts([attempts EXCEPT ![n].child = "exited"],
                                          connections, attempts[n].name)
  /\ tools' = HandleDisconnectTools(tools, connections, attempts[n].name)
  /\ UNCHANGED << servers, connections, connectVars, disconnectVars, registry, mcpManager,
                  listed >>
  /\ UNCHANGED otherVars

\* 'error' of a process that could not be spawned: handleDisconnect(name)
ChildError(n) ==
  /\ attempts[n].child = "failed"
  /\ attempts' = HandleDisconnectAttempts([attempts EXCEPT ![n].child = "errored"],
                                          connections, attempts[n].name)
  /\ tools' = HandleDisconnectTools(tools, connections, attempts[n].name)
  /\ UNCHANGED << servers, connections, connectVars, disconnectVars, registry, mcpManager,
                  listed, nev >>
  /\ UNCHANGED otherVars

\* exit of the process the transport started: the manager registers no
\* observer on the transport or the client
TransportExit(n) ==
  /\ attempts[n].tp = "running"
  /\ nev < MaxEvents
  /\ nev' = nev + 1
  /\ attempts' = [attempts EXCEPT ![n].tp = "exited"]
  /\ UNCHANGED << servers, connections, tools, connectVars, disconnectVars, registry,
                  mcpManager, listed >>
  /\ UNCHANGED otherVars

\* ------------------------------------------------------------------ JavaScript values
\* String.prototype.includes
Includes(s, sub) ==
  \E i \in 1..(Len(s) + 1) :
    i + Len(sub) - 1 <= Len(s) /\ SubSeq(s, i, i + Len(sub) - 1) = sub

\* JSON.stringify(v, null, 2): a string, undefined for undefined, or a throw
JsonStringify(v) ==
  CASE v.t = "string"    -> [t |-> "string", s |-> "\"" \o v.s \o "\""]
    [] v.t = "object"    -> [t |-> "string", s |-> "{ \"k\": 1 }"]
    [] v.t = "number"    -> [t |-> "string", s |-> "42"]
    [] v.t = "null"      -> [t |-> "string", s |-> "null"]
    [] v.t = "undefined" -> [t |-> "undefined"]
    [] OTHER             -> [t |-> "throw", s |-> "Converting circular structure to JSON"]

\* error instanceof Error ? error.message : String(error)
ErrorMessage(e) ==
  CASE e.t = "Error"     -> e.s
    [] e.t = "string"    -> e.s
    [] e.t = "object"    -> "[object Object]"
    [] e.t = "number"    -> "42"
    [] e.t = "null"      -> "null"
    [] OTHER             -> "undefined"

\* an async function's promise
Resolved(v) == [st |-> "resolved", v |-> v]
Rejected(e) == [st |-> "rejected", v |-> e]

\* ------------------------------------------------------------------ remote tool invocation
\* the try/catch in the func createLangChainTool builds
CallErrorPropagates == FALSE
CallErrorCaught == TRUE

\* result.content filtered to its text items, mapped to their texts, joined with "\n"
RECURSIVE TextContent(_)
TextContent(content) ==
  IF content = <<>> THEN ""
  ELSE LET rest == TextContent(Tail(content))
           texts == SelectSeq(Tail(content), LAMBDA item : item.type = "text")
       IN IF Head(content).type # "text" THEN rest
          ELSE IF texts = <<>> THEN Head(content).text
          ELSE Head(content).text \o "\n" \o rest

\* what client.callTool may resolve to
CallResults ==
  { [hasContent |-> TRUE,  content |-> << [type |-> "text", text |-> "r1"] >>],
    [hasContent |-> TRUE,  content |-> << [type |-> "text", text |-> "r1"],
                                          [type |-> "image", text |-> ""],
                                          [type |-> "text", text |-> "r2"] >>],
    [hasContent |-> TRUE,  content |-> << [type |-> "image", text |-> ""] >>],
    [hasContent |-> TRUE,  content |-> << [type |-> "text", text |-> ""] >>],
    [hasContent |-> FALSE, content |-> <<>>] }

\* what client.callTool may reject with
CallErrors == { [t |-> "Error", s |-> "Connection closed"], [t |-> "Error", s |-> "Request timed out"] }

\* the func of a remote tool, from the settling of client.callTool on
RemoteFunc(toolName, outcome) ==
  IF outcome.how = "resolve"
  THEN IF outcome.result.hasContent /\ TextContent(outcome.result.content) # ""
       THEN Resolved([t |-> "string", s |-> TextContent(outcome.result.content)])
       ELSE Resolved(JsonStringify([t |-> "object"]))
  ELSE IF CallErrorCaught
       THEN Resolved([t |-> "string",
                      s |-> "Error: MCP tool \"" \o toolName \o "\" failed - "
                              \o ErrorMessage(outcome.error)])
       ELSE Rejected(outcome.error)

\* no result of client.callTool (yet)
NoResult == [hasContent |-> FALSE, content |-> << >>]

NoCall == [st |-> "none", name |-> "", att |-> 0, late |-> FALSE, raced |-> FALSE,
           v |-> [t |-> "undefined"], got |-> FALSE, result |-> NoResult]

\* the client a tool was created with (one connect() per manager: the one
\* attempt of its server whose handshake resolved)
ClientOf(t) ==
  CHOOSE n \in 1..Len(attempts) : attempts[n].name = t.server /\ attempts[n].hs = "ok"

\* the agent invokes one of the remote tools of the engine's registry: the
\* func up to its await of client.callTool
InvokeStart ==
  /\ call.st # "pending"
  /\ ncall < MaxCalls
  /\ ncall' = ncall + 1
  /\ \E k \in 1..Len(registry) :
       /\ registry[k].server # ""
       /\ call' = [st |-> "pending", name |-> registry[k].name,
                   att |-> ClientOf(registry[k]),
                   late |-> ~attempts[ClientOf(registry[k])].connected,
                   raced |-> FALSE,
                   v |-> [t |-> "undefined"], got |-> FALSE, result |-> NoResult]
  /\ UNCHANGED << managerVars, shutdownVars, loaderVars, schemaVars, roleVars >>

\* client.callTool settles; a result needs the process the client talks to
CallSettle ==
  /\ call.st = "pending"
  /\ \E outcome \in [how : {"resolve"}, result : CallResults]
                      \cup [how : {"reject"}, error : CallErrors] :
       /\ outcome.how = "resolve" => attempts[call.att].tp = "running"
       /\ LET r == RemoteFunc(call.name, outcome)
          IN call' = [call EXCEPT !.st = r.st, !.v = r.v,
                                  !.raced = ~call.late /\ ~attempts[call.att].connected,
                                  !.got = outcome.how = "resolve",
                                  !.result = IF outcome.how = "resolve"
                                             THEN outcome.result ELSE NoResult]
  /\ UNCHANGED << managerVars, shutdownVars, ncall, loaderVars, schemaVars, roleVars >>

\* ------------------------------------------------------------------ local tool loader
\* exported values: an object with the four inspected properties (name "" when
\* it is missing, empty or not a string), an array, a number, or nothing
Obj(id, name, description, schema, func) ==
  [kind |-> "obj", id |-> id, name |-> name, description |-> description,
   schema |-> schema, func |-> func]
Arr(items) == [kind |-> "arr", items |-> items]
Num == [kind |-> "num"]
Undefined == [kind |-> "none"]
Null == [kind |-> "null"]

\* a module: whether bundleRequire rejects, its default export, and the object
\* its exports name, description, schema, func assemble to
Module(fails, default, named) == [fails |-> fails, default |-> default, named |-> named]

NoNamed == Obj("", "", FALSE, FALSE, FALSE)

Modules ==
  { Module(FALSE, Obj("A", "x", TRUE, TRUE, TRUE), NoNamed),
    Module(FALSE, Obj("B", "y", TRUE, TRUE, TRUE), NoNamed),
    Module(FALSE, Arr(<< Obj("C1", "w", TRUE, TRUE, FALSE), Num,
                         Obj("C2", "x", TRUE, TRUE, TRUE),
                         Obj("C3", "z", TRUE, TRUE, TRUE) >>), NoNamed),
    Module(FALSE, Undefined, Obj("D", "y", TRUE, TRUE, TRUE)),
    Module(TRUE,  Undefined, NoNamed),
    Module(FALSE, Obj("F", "", TRUE, TRUE, TRUE), NoNamed),
    Module(FALSE, Obj("G1", "x", TRUE, FALSE, TRUE), Obj("G2", "z", TRUE, TRUE, TRUE)),
    Module(FALSE, Arr(<< Num >>), Obj("H", "y", TRUE, TRUE, TRUE)) }

RECURSIVE SeqsUpTo(_, _)
SeqsUpTo(S, n) ==
  IF n = 0 THEN { <<>> }
  ELSE SeqsUpTo(S, n - 1) \cup
       { Append(q, x) : q \in { r \in SeqsUpTo(S, n - 1) : Len(r) = n - 1 }, x \in S }

\* the tools directory: whether it exists, and the files glob returns, in the
\* order it returns them
Dirs ==
  { [exists |-> FALSE, files |-> <<>>] } \cup
  { [exists |-> TRUE, files |-> f] : f \in SeqsUpTo(Modules, MaxFiles) }

IsValidToolExport(obj) ==
  /\ obj.kind = "obj"
  /\ obj.name # ""
  /\ obj.description
  /\ obj.schema
  /\ obj.func

\* a faulty variant of LoadToolFromFile: only a directly exported object counts
LoadToolFromFileDirectOnly(m) ==
  IF m.fails THEN Null
  ELSE IF IsValidToolExport(m.default) THEN m.default ELSE Null

\* loadToolFromFile after bundleRequire settled: the definition, or null
LoadToolFromFile(m) ==
  IF m.fails THEN Null
  ELSE LET toolExport == IF m.default.kind # "none" THEN m.default ELSE m.named IN
       IF toolExport.kind = "arr"
       THEN IF \E k \in 1..Len(toolExport.items) : IsValidToolExport(toolExport.items[k])
            THEN toolExport.items[CHOOSE k \in 1..Len(toolExport.items) :
                                    /\ IsValidToolExport(toolExport.items[k])
                                    /\ \A j \in 1..(k - 1) :
                                         ~IsValidToolExport(toolExport.items[j])]
            ELSE Null
       ELSE IF IsValidToolExport(toolExport) THEN toolExport
       ELSE IF IsValidToolExport(m.named) THEN m.named
       ELSE Null

\* the try/catch in loadToolFromFile
LoadErrorPropagates == FALSE
LoadErrorCaught == TRUE

\* a faulty variant of PushTool: a duplicate name replaces the earlier tool
PushToolReplacing(tls, names, toolDef, file) ==
  Append(SelectSeq(tls, LAMBDA t : t.name # toolDef.name),
         [name |-> toolDef.name, id |-> toolDef.id, file |-> file])

\* the body of loadLocalTools' loop for a definition: skip a name already
\* loaded, else convert and push
PushTool(tls, names, toolDef, file) ==
  IF toolDef.name \in names THEN tls
  ELSE Append(tls, [name |-> toolDef.name, id |-> toolDef.id, file |-> file])

\* the try/catch in the function wrapToolFunc returns
LocalErrorPropagates == FALSE
LocalErrorCaught == TRUE

\* what a tool's func may do: return (or resolve to) a value, throw (or reject with) one
FuncOutcomes ==
  [how : {"return"},
   v : { [t |-> "string", s |-> "done"], [t |-> "string", s |-> ""], [t |-> "object"],
         [t |-> "number"], [t |-> "null"], [t |-> "undefined"], [t |-> "circular"] }]
  \cup
  [how : {"throw"},
   v : { [t |-> "Error", s |-> "boom"], [t |-> "string", s |-> "bad"],
         [t |-> "object"], [t |-> "undefined"] }]

\* the function wrapToolFunc returns, applied to a func with the given outcome
WrapToolFunc(name, outcome) ==
  LET caught(msg) ==
        Resolved([t |-> "string", s |-> "Error: Tool \"" \o name \o "\" failed - " \o msg])
  IN IF outcome.how = "return"
     THEN IF outcome.v.t = "string" THEN Resolved(outcome.v)
          ELSE LET j == JsonStringify(outcome.v) IN
               IF j.t # "throw" THEN Resolved(j)
               ELSE IF LocalErrorCaught THEN caught(j.s)
               ELSE Rejected([t |-> "Error", s |-> j.s])
     ELSE IF LocalErrorCaught THEN caught(ErrorMessage(outcome.v))
          ELSE Rejected(outcome.v)

\* console.log writes a line to stdout, console.error to stderr
ConsoleLog(o, line) == [o EXCEPT !.stdout = @ \cup {line}]
ConsoleError(o, line) == [o EXCEPT !.stderr = @ \cup {line}]

\* utils/logger.ts
LoggerInfo(o, line) == ConsoleLog(o, line)
LoggerWarn(o, line) == ConsoleLog(o, line)
LoggerError(o, line) == ConsoleError(o, line)

NoOutput == [stdout |-> {}, stderr |-> {}]

\* what the function wrapToolFunc returns writes: logger.error in its catch
WrapToolFuncLogs(o, outcome) ==
  IF outcome.how = "throw" \/ JsonStringify(outcome.v).t = "throw"
  THEN LoggerError(o, "Tool execution failed")
  ELSE o

NoInvoke == [st |-> "none", tool |-> "", outcome |-> [how |-> "none"], v |-> [t |-> "undefined"]]

\* loadLocalTools returns
LoadReturns(tls, names, o) ==
  /\ lpc' = "done"
  /\ fi' = 0
  /\ ltools' = tls
  /\ loadedNames' = names
  /\ out' = o

\* loadLocalTools up to its first await of loadToolFromFile, called by a
\* caller that has written o so far
LoadLocalToolsBegin(o) ==
  IF ~dir.exists
  THEN LoadReturns(<<>>, {}, LoggerWarn(o, "Tools directory not found"))
  ELSE IF Len(dir.files) = 0
  THEN LoadReturns(<<>>, {}, o)
  ELSE /\ lpc' = "load"
       /\ fi' = 1
       /\ ltools' = <<>>
       /\ loadedNames' = {}
       /\ out' = o

\* loadLocalTools called on its own
LoadLocalToolsStart ==
  /\ lpc = "idle"
  /\ LoadLocalToolsBegin(out)
  /\ UNCHANGED << managerVars, shutdownVars, callVars, dir, linv, schemaVars, roleVars >>

\* loadToolFromFile(files[fi]) settles; the loop body runs and the loop goes on
LoadToolFromFileSettle ==
  /\ lpc = "load"
  /\ IF dir.files[fi].fails /\ ~LoadErrorCaught
     THEN /\ lpc' = "rejected"
          /\ UNCHANGED << fi, ltools, loadedNames, out >>
     ELSE LET toolDef == LoadToolFromFile(dir.files[fi])
              o == IF toolDef.kind = "null" THEN LoggerWarn(out, "Skipping file")
                   ELSE IF toolDef.name \in loadedNames
                   THEN LoggerWarn(out, "Skipping duplicate tool")
                   ELSE out
              tls == IF toolDef.kind = "null" THEN ltools
                     ELSE PushTool(ltools, loadedNames, toolDef, fi)
              names == IF toolDef.kind = "null" THEN loadedNames
                       ELSE loadedNames \cup {toolDef.name}
          IN IF fi < Len(dir.files)
             THEN /\ lpc' = "load"
                  /\ fi' = fi + 1
                  /\ ltools' = tls
                  /\ loadedNames' = names
                  /\ out' = o
             ELSE LoadReturns(tls, names, LoggerInfo(o, "Loaded local tool(s)"))
  /\ UNCHANGED << managerVars, shutdownVars, callVars, dir, linv, schemaVars, roleVars >>

\* a loaded tool is invoked: the wrapped func runs to its end
LocalInvoke ==
  /\ lpc = "done"
  /\ \E k \in 1..Len(ltools), outcome \in FuncOutcomes :
       LET r == WrapToolFunc(ltools[k].name, outcome)
       IN /\ linv' = [st |-> r.st, tool |-> ltools[k].name, outcome |-> outcome, v |-> r.v]
          /\ out' = WrapToolFuncLogs(out, outcome)
  /\ UNCHANGED << managerVars, shutdownVars, callVars, dir, lpc, fi, ltools, loadedNames, schemaVars,
                  roleVars >>

\* ------------------------------------------------------------------ schema translator
\* a field of a structured (zod) schema: _def.typeName, the typeName of the
\* wrapped type for ZodOptional and ZodDefault, and the description
Field(typeName, inner, description) ==
  [typeName |-> typeName, inner |-> inner, description |-> description]

FieldTypes ==
  { Field("ZodString", "", ""), Field("ZodString", "", "d"), Field("ZodNumber", "", ""),
    Field("ZodBoolean", "", ""), Field("ZodArray", "", ""), Field("ZodObject", "", ""),
    Field("ZodOptional", "ZodNumber", ""), Field("ZodOptional", "ZodString", "d"),
    Field("ZodDefault", "ZodNumber", ""), Field("ZodEnum", "", "") }

\* structured schemas: the shape as key/field pairs in declaration order
Schemas ==
  { << >> } \cup
  { << [key |-> "a", field |-> f] >> : f \in FieldTypes } \cup
  { << [key |-> "a", field |-> f], [key |-> "b", field |-> g] >> : f, g \in FieldTypes }

\* zodToJsonSchema: the type of one field
JsonType(typeName) ==
  IF Includes(typeName, "Number") THEN "number"
  ELSE IF Includes(typeName, "Boolean") THEN "boolean"
  ELSE IF Includes(typeName, "Array") THEN "array"
  ELSE IF Includes(typeName, "Object") THEN "object"
  ELSE "string"

\* zodToJsonSchema
ZodToJsonSchema(shape) ==
  LET req == SelectSeq(shape, LAMBDA e : ~Includes(e.field.typeName, "Optional"))
  IN [ type |-> "object",
       hasProperties |-> TRUE,
       properties |-> [k \in 1..Len(shape) |->
                         [key |-> shape[k].key,
                          type |-> JsonType(shape[k].field.typeName),
                          description |-> shape[k].field.description]],
       hasRequired |-> Len(req) > 0,
       required |-> [k \in 1..Len(req) |-> req[k].key] ]

\* jsonSchemaToZod: the zod type of one property
ZodTypeName(type) ==
  CASE type = "string"  -> "ZodString"
    [] type = "number"  -> "ZodNumber"
    [] type = "integer" -> "ZodNumber"
    [] type = "boolean" -> "ZodBoolean"
    [] type = "array"   -> "ZodArray"
    [] type = "object"  -> "ZodRecord"
    [] OTHER            -> "ZodUnknown"

\* jsonSchemaToZod
JsonSchemaToZod(schema) ==
  IF "absent" \in DOMAIN schema \/ ~schema.hasProperties THEN << >>
  ELSE [k \in 1..Len(schema.properties) |->
          LET prop == schema.properties[k]
              required == IF schema.hasRequired
                          THEN { schema.required[j] : j \in 1..Len(schema.required) }
                          ELSE {}
              type == IF "type" \in DOMAIN prop THEN prop.type ELSE "undefined"
              description == IF "description" \in DOMAIN prop THEN prop.description ELSE ""
          IN [key |-> prop.key,
              field |-> IF prop.key \in required
                        THEN Field(ZodTypeName(type), "", description)
                        ELSE Field("ZodOptional", ZodTypeName(type), description)]]

NoWire == [type |-> "none", hasProperties |-> FALSE, properties |-> << >>,
           hasRequired |-> FALSE, required |-> << >>]

\* serve's list-tools handler converts a tool's schema to its wire form
ToWire ==
  /\ wire = NoWire
  /\ wire' = ZodToJsonSchema(zschema)
  /\ UNCHANGED << managerVars, shutdownVars, callVars, loaderVars, zschema, back, roleVars >>
  /\ UNCHANGED << toolInfos, spc, serverTools >>

\* a consuming manager's loadServerTools converts the wire form back
ToStructured ==
  /\ wire # NoWire
  /\ back = << >>
  /\ back' = JsonSchemaToZod(wire)
  /\ UNCHANGED << managerVars, shutdownVars, callVars, loaderVars, zschema, wire, roleVars >>
  /\ UNCHANGED << toolInfos, spc, serverTools >>

\* Wire schemas as a remote server may send them. A property descriptor that is
\* an object has the members it was sent with; a descriptor that is null or a
\* primitive has none.
Prop(key, type, description) == [key |-> key, type |-> type, description |-> description]
PropNoType(key) == [key |-> key, description |-> ""]
PropNull(key) == [key |-> key, null |-> TRUE]
PropPrimitive(key) == [key |-> key, primitive |-> TRUE]

RemoteProps ==
  { Prop("a", "string", ""), Prop("a", "integer", "d"), Prop("a", "frobnicate", ""),
    PropNoType("a"), PropNull("a"), PropPrimitive("a") }

\* inputSchema is undefined
SchemaAbsent == [absent |-> TRUE]

\* the schema has no properties member
SchemaNoProperties ==
  [type |-> "object", hasProperties |-> FALSE, properties |-> << >>,
   hasRequired |-> TRUE, required |-> << "a" >>]

\* required is absent, a list, or a value that is no list: a number or an
\* object (not iterable), or a string (iterable: its characters)
RemoteSchemas ==
  { SchemaAbsent, SchemaNoProperties } \cup
  { [type |-> "object", hasProperties |-> TRUE, properties |-> << prop >>,
     hasRequired |-> hr, required |-> IF hr THEN << "a" >> ELSE << >>] :
      prop \in RemoteProps, hr \in BOOLEAN } \cup
  { [type |-> "object", hasProperties |-> TRUE,
     properties |-> << Prop("a", "string", "") >>,
     hasRequired |-> TRUE, required |-> IF ri = "string" THEN << "a" >> ELSE << >>,
     requiredIs |-> ri] :
      ri \in { "number", "object", "string" } }

\* list-tools answers: up to MaxToolInfos tools named t1, t2, ...
ToolInfoName(k) == IF k = 1 THEN "t" ELSE IF k = 2 THEN "u" ELSE "v"
ToolInfos(max) ==
  UNION { { [k \in 1..n |-> [name |-> ToolInfoName(k), inputSchema |-> f[k]]] :
              f \in [1..n -> RemoteSchemas] } : n \in 1..max }

\* jsonSchemaToZod throws: new Set(schema.required) of a value that is not
\* iterable, or prop.type read from a null descriptor
JsonSchemaToZodThrows(schema) ==
  /\ "absent" \notin DOMAIN schema
  /\ schema.hasProperties
  /\ \/ "requiredIs" \in DOMAIN schema /\ schema.requiredIs \in { "number", "object" }
     \/ \E k \in 1..Len(schema.properties) : "null" \in DOMAIN schema.properties[k]

\* createLangChainTool
CreateLangChainTool(serverName, toolInfo) ==
  [name |-> ToolName(serverName, toolInfo.name), server |-> serverName,
   schema |-> JsonSchemaToZod(toolInfo.inputSchema)]

\* loadServerTools after listTools() resolved: the loop over result.tools
LoadServerTools(serverName, infos) ==
  IF \E k \in 1..Len(infos) : JsonSchemaToZodThrows(infos[k].inputSchema)
  THEN Rejected([t |-> "Error", s |-> "TypeError"])
  ELSE Resolved([k \in 1..Len(infos) |-> CreateLangChainTool(serverName, infos[k])])

NoLoad == [st |-> "none", v |-> << >>]

\* client.listTools() resolves in loadServerTools
ListToolsResolve ==
  /\ spc = "list"
  /\ serverTools' = LoadServerTools("a", toolInfos)
  /\ spc' = "loaded"
  /\ UNCHANGED << managerVars, shutdownVars, callVars, loaderVars, zschema, wire, back, toolInfos,
                  roleVars >>

\* loadAllTools continues after await this.loadServerTools()
LoadServerToolsSettle ==
  /\ spc = "loaded"
  /\ IF serverTools.st = "resolved"
     THEN tools' = tools \o serverTools.v
     ELSE ListErrorCaught /\ UNCHANGED tools
  /\ spc' = "done"
  /\ UNCHANGED << servers, attempts, connections, connectVars, disconnectVars, registry,
                  mcpManager,
                  listed, nev >>
  /\ UNCHANGED << shutdownVars, callVars, loaderVars, zschema, wire, back, toolInfos, serverTools,
                  roleVars >>

\* ------------------------------------------------------------------ provider role (serve)
\* serve.ts' own log object: every level writes with console.error
LogInfo(o, line) == ConsoleError(o, line)
LogError(o, line) == ConsoleError(o, line)

NoRequest == [st |-> "none", name |-> "", argsValid |-> TRUE]
NoResponse == [st |-> "none", name |-> "", outcome |-> [how |-> "none"],
               content |-> << >>, isError |-> FALSE]

\* toolMap: built from the loaded tools by name
ToolMapHas(name) == \E k \in 1..Len(ltools) : ltools[k].name = name

\* the names a call-tool request may carry
RequestNames == {"x", "y", "z", "nope"}

\* a faulty variant of NotFoundResponse: the error flag is left out
NotFoundResponseUnflagged(name) ==
  [st |-> "sent", name |-> name, outcome |-> [how |-> "none"],
   content |-> << [type |-> "text", text |-> [t |-> "string",
                   s |-> "Error: Tool \"" \o name \o "\" not found"]] >>,
   isError |-> FALSE]

\* the call-tool handler's answer when toolMap has no such tool
NotFoundResponse(name) ==
  [st |-> "sent", name |-> name, outcome |-> [how |-> "none"],
   content |-> << [type |-> "text", text |-> [t |-> "string",
                   s |-> "Error: Tool \"" \o name \o "\" not found"]] >>,
   isError |-> TRUE]

\* the call-tool handler's answer once tool.invoke settled: r is the promise
\* of invoke
InvokeResponse(name, outcome, r) ==
  IF r.st = "resolved"
  THEN [st |-> "sent", name |-> name, outcome |-> outcome,
        content |-> << [type |-> "text",
                        text |-> IF r.v.t = "string" THEN r.v ELSE JsonStringify(r.v)] >>,
        isError |-> FALSE]
  ELSE [st |-> "sent", name |-> name, outcome |-> outcome,
        content |-> << [type |-> "text", text |-> [t |-> "string",
                        s |-> "Error: Tool \"" \o name \o "\" failed - "
                                \o ErrorMessage(r.v)]] >>,
        isError |-> TRUE]

\* serveCommand up to its await of loadConfig
ServeStart ==
  /\ vpc = "idle"
  /\ vpc' = "config"
  /\ out' = LogInfo(out, "Loading configuration...")
  /\ UNCHANGED << managerVars, shutdownVars, callVars, dir, lpc, fi, ltools, loadedNames, linv, schemaVars,
                  request, resp, invoked, nreq, commandVars >>

\* loadConfig settles: on failure the process exits, else loadLocalTools is called
ServeConfigSettle ==
  /\ vpc = "config"
  /\ \E ok \in BOOLEAN :
       IF ok
       THEN /\ vpc' = "load"
            /\ LoadLocalToolsBegin(LogInfo(out, "Loading local tools..."))
       ELSE /\ vpc' = "exited"
            /\ out' = LogError(out, "Failed to load configuration")
            /\ UNCHANGED << lpc, fi, ltools, loadedNames >>
  /\ UNCHANGED << managerVars, shutdownVars, callVars, dir, linv, schemaVars,
                  request, resp, invoked, nreq, commandVars >>

\* loadLocalTools has resolved: toolMap is built, the server created, its
\* handlers registered and the stdio transport connected
ServeToolsLoaded ==
  /\ vpc = "load"
  /\ lpc = "done"
  /\ vpc' = "running"
  /\ out' = LogInfo(LogInfo(LogInfo(out, "Loaded tool(s)"), "Starting MCP server via stdio..."),
                    "MCP server is running. Waiting for requests...")
  /\ UNCHANGED << managerVars, shutdownVars, callVars, dir, lpc, fi, ltools, loadedNames, linv, schemaVars,
                  request, resp, invoked, nreq, commandVars >>

\* a call-tool request arrives: the handler up to its await of tool.invoke, or
\* its answer when the tool is not found
CallToolRequest ==
  /\ vpc = "running"
  /\ request.st # "pending"
  /\ nreq < MaxRequests
  /\ nreq' = nreq + 1
  /\ \E name \in RequestNames, argsValid \in BOOLEAN :
       IF ~ToolMapHas(name)
       THEN /\ resp' = NotFoundResponse(name)
            /\ request' = NoRequest
            /\ out' = LogError(out, "Tool not found")
       ELSE /\ request' = [st |-> "pending", name |-> name, argsValid |-> argsValid]
            /\ UNCHANGED << resp, out >>
  /\ UNCHANGED << managerVars, shutdownVars, callVars, dir, lpc, fi, ltools, loadedNames, linv, schemaVars,
                  vpc, invoked, commandVars >>

\* tool.invoke settles: arguments the tool's schema refuses make invoke reject
\* before the func is called; else the func wrapToolFunc built runs
CallToolSettle ==
  /\ vpc = "running"
  /\ request.st = "pending"
  /\ IF ~request.argsValid
     THEN LET r == Rejected([t |-> "Error", s |-> "Received tool input did not match expected schema"])
          IN /\ resp' = InvokeResponse(request.name, [how |-> "none"], r)
             /\ out' = LogError(out, "Tool failed")
             /\ UNCHANGED invoked
     ELSE \E outcome \in FuncOutcomes :
            LET r == WrapToolFunc(request.name, outcome)
                o == WrapToolFuncLogs(out, outcome)
            IN /\ resp' = InvokeResponse(request.name, outcome, r)
               /\ out' = IF r.st = "resolved" THEN o ELSE LogError(o, "Tool failed")
               /\ invoked' = invoked \cup {request.name}
  /\ request' = NoRequest
  /\ UNCHANGED << managerVars, shutdownVars, callVars, dir, lpc, fi, ltools, loadedNames, linv, schemaVars,
                  vpc, nreq, commandVars >>

\* the list-tools handler's answer: the names it advertises
ListToolsResponse == [k \in 1..Len(ltools) |-> ltools[k].name]

\* ------------------------------------------------------------------ start and dev commands
\* a command run: which command, whether --timeout was given, whether the
\* configuration sets runtime.timeout, has an API key and mcpServers, whether
\* createDeepAgent succeeds
Commands ==
  [kind : {"start", "dev"}, timeout : BOOLEAN, configTimeout : BOOLEAN, apiKey : BOOLEAN,
   hasServers : BOOLEAN, agentOk : BOOLEAN]

\* start's timeoutMs: parsed from the --timeout option, undefined without it;
\* it is copied into config.runtime.timeout, which nothing reads
TimeoutMs(c) == c.timeout

NewEngine == [llm |-> FALSE, agent |-> FALSE, tools |-> FALSE, manager |-> FALSE,
              initialized |-> FALSE, isShuttingDown |-> FALSE]

\* a faulty variant of CleanedUp: the agent and the LLM are kept
CleanedUpKeepsAgent(e) ==
  [e EXCEPT !.tools = FALSE, !.manager = FALSE, !.initialized = FALSE]

\* the end of engine.shutdown()
CleanedUp(e) ==
  [e EXCEPT !.llm = FALSE, !.agent = FALSE, !.tools = FALSE, !.manager = FALSE,
            !.initialized = FALSE]

\* a faulty variant of ApiKeyMissing: the key is not validated
ApiKeyIgnored(c) == FALSE

\* initializeLLM's validation of configuration.apiKey
ApiKeyMissing(c) == ~c.apiKey

\* a faulty variant of FailureExitCode
FailureExitCodeZero == "0"

\* the code start exits with after a failed or timed-out task
FailureExitCode == "1"

\* the code a signal handler exits with
SignalExitCode(kind, sig) ==
  IF kind = "dev" THEN "0" ELSE IF sig = "SIGINT" THEN "130" ELSE "143"

\* the command's state as it is threaded through one run of a handler
Here == [eng |-> eng, trace |-> trace, pend |-> pend, exit |-> exitCode, rl |-> rl]

Becomes(c) ==
  /\ eng' = c.eng
  /\ trace' = c.trace
  /\ pend' = c.pend
  /\ exitCode' = c.exit
  /\ rl' = c.rl

Did(c, step) == [c EXCEPT !.trace = Append(@, step)]

\* process.exit(code)
ProcessExit(c, code) == IF c.exit # "none" THEN c ELSE [c EXCEPT !.exit = code]

\* engine.shutdown() followed by process.exit(code): the readline interface is
\* closed and dropped; with a manager, disconnect() is called and awaited;
\* without one the cleanup runs at once
ShutdownThenExit(c, code) ==
  LET d == [Did(c, "shutdown") EXCEPT !.rl = "none"] IN
  IF c.eng.manager
  THEN [Did(d, "disconnect") EXCEPT !.pend = Append(@, code)]
  ELSE ProcessExit([d EXCEPT !.eng = CleanedUp(@)], code)

\* initialize() rejects: the command reports it and calls process.exit(1)
InitializeFails(c) == ProcessExit(Did(c, "initFailed"), "1")

\* the command starts: signal handlers registered, loadConfig awaited
CommandStart ==
  /\ mpc = "idle"
  /\ mpc' = "config"
  /\ UNCHANGED << managerVars, shutdownVars, callVars, loaderVars, schemaVars, serveVars,
                  cmd, eng, trace, pend, timer, exitCode, nsig, rl >>

\* loadConfig settles; the engine is constructed; initialize() runs
\* initializeLLM and calls loadLocalTools
ConfigSettle ==
  /\ mpc = "config"
  /\ exitCode = "none"
  /\ \E ok \in BOOLEAN :
       IF ~ok THEN Becomes(ProcessExit(Here, "1")) /\ mpc' = "exited"
       ELSE IF ApiKeyMissing(cmd) THEN Becomes(InitializeFails(Here)) /\ mpc' = "exited"
       ELSE /\ Becomes(Did([Here EXCEPT !.eng.llm = TRUE], "llm"))
            /\ mpc' = "local"
  /\ UNCHANGED << managerVars, shutdownVars, callVars, loaderVars, schemaVars, serveVars, cmd, timer, nsig >>

\* createAgent, the end of initialize(), and the command's next await:
\* runTask raced against the deadline (start) or the REPL's prompt (dev:
\* runInteractive creates the readline interface, promptUser listens on it)
CreateAgentAndRun(c) ==
  IF ~c.eng.llm \/ ~cmd.agentOk
  THEN Becomes(InitializeFails(c)) /\ mpc' = "exited" /\ timer' = timer
  ELSE /\ Becomes(Did(Did([c EXCEPT !.eng.agent = TRUE, !.eng.initialized = TRUE,
                                    !.rl = IF cmd.kind = "dev" THEN "open" ELSE @],
                           "agent"), "initialized"))
       /\ mpc' = IF cmd.kind = "start" THEN "task" ELSE "repl"
       /\ timer' = IF cmd.kind = "start" /\ TimeoutMs(cmd) THEN "armed" ELSE timer

\* loadLocalTools resolves; with mcpServers the manager is created and
\* connect() called
LocalSettle ==
  /\ mpc = "local"
  /\ exitCode = "none"
  /\ LET c == Did([Here EXCEPT !.eng.tools = TRUE], "local") IN
     IF cmd.hasServers
     THEN /\ Becomes(Did([c EXCEPT !.eng.manager = TRUE], "connect"))
          /\ mpc' = "connect"
          /\ timer' = timer
     ELSE CreateAgentAndRun(c)
  /\ UNCHANGED << managerVars, shutdownVars, callVars, loaderVars, schemaVars, serveVars, cmd, nsig >>

\* connect() resolves; its tools are pushed
ConnectSettle ==
  /\ mpc = "connect"
  /\ exitCode = "none"
  /\ CreateAgentAndRun(Did(Here, "connected"))
  /\ UNCHANGED << managerVars, shutdownVars, callVars, loaderVars, schemaVars, serveVars, cmd, nsig >>

\* runTask resolves before the deadline: the result is written, shutdown(0)
TaskResolve ==
  /\ mpc = "task"
  /\ exitCode = "none"
  /\ Becomes(ShutdownThenExit(Did(Did(Here, "resolved"), "output"), "0"))
  /\ mpc' = "shutdown"
  /\ UNCHANGED << managerVars, shutdownVars, callVars, loaderVars, schemaVars, serveVars, cmd, timer, nsig >>

\* runTask rejects before the deadline: shutdown(1)
TaskReject ==
  /\ mpc = "task"
  /\ exitCode = "none"
  /\ Becomes(ShutdownThenExit(Did(Here, "rejected"), FailureExitCode))
  /\ mpc' = "shutdown"
  /\ UNCHANGED << managerVars, shutdownVars, callVars, loaderVars, schemaVars, serveVars, cmd, timer, nsig >>

\* the deadline's timer fires: the race rejects if it is still undecided
DeadlineFires ==
  /\ timer = "armed"
  /\ exitCode = "none"
  /\ timer' = "fired"
  /\ IF mpc = "task"
     THEN /\ Becomes(ShutdownThenExit(Did(Here, "timeout"), FailureExitCode))
          /\ mpc' = "shutdown"
     ELSE UNCHANGED << eng, trace, pend, exitCode, mpc, rl >>
  /\ UNCHANGED << managerVars, shutdownVars, callVars, loaderVars, schemaVars, serveVars, cmd, nsig >>

\* how often a step was taken
Times(step) == Cardinality({i \in 1..Len(trace) : trace[i] = step})

\* the user enters a task at the prompt: executeTask invokes the agent
ReplTask ==
  /\ mpc = "repl"
  /\ rl = "open"
  /\ exitCode = "none"
  /\ eng.agent
  /\ Times("invoke") < MaxTasks
  /\ Becomes(Did(Here, "invoke"))
  /\ mpc' = "execute"
  /\ UNCHANGED << managerVars, shutdownVars, callVars, loaderVars, schemaVars, serveVars, cmd, timer, nsig >>

\* the agent's invocation settles (an error is logged by the loop's catch): the
\* loop ends with engine.shutdown() when isShuttingDown is set, else promptUser
\* registers its 'line' and 'close' listeners on the interface, open or not
ExecuteSettle ==
  /\ mpc = "execute"
  /\ exitCode = "none"
  /\ \E ok \in BOOLEAN :
       LET c == Did(Here, IF ok THEN "response" ELSE "agentError") IN
       IF eng.isShuttingDown
       THEN Becomes(ShutdownThenExit(c, "0")) /\ mpc' = "shutdown"
       ELSE Becomes(c) /\ mpc' = "repl"
  /\ UNCHANGED << managerVars, shutdownVars, callVars, loaderVars, schemaVars, serveVars, cmd, timer, nsig >>

\* the input stream ends and readline emits 'close': a pending prompt resolves
\* to '', the loop continues (isShuttingDown is not set) and promptUser registers
\* its listeners again, now on the closed interface, which emits nothing more
InputClose ==
  /\ rl = "open"
  /\ exitCode = "none"
  /\ rl' = "closed"
  /\ UNCHANGED << managerVars, shutdownVars, callVars, loaderVars, schemaVars, serveVars,
                  cmd, mpc, eng, trace, pend, timer, exitCode, nsig >>

\* the user leaves the REPL: replLoop ends with engine.shutdown(), runInteractive
\* and the command return, and the process ends
ReplExit ==
  /\ mpc = "repl"
  /\ rl = "open"
  /\ exitCode = "none"
  /\ Becomes(ShutdownThenExit(Here, "0"))
  /\ mpc' = "shutdown"
  /\ UNCHANGED << managerVars, shutdownVars, callVars, loaderVars, schemaVars, serveVars, cmd, timer, nsig >>

\* SIGINT or SIGTERM: the command's handler, and in the REPL the engine's own
\* handler after it; the first shutdown() closes the readline interface, whose
\* 'close' resolves a prompt listening on it, and the loop, finding
\* isShuttingDown set, ends with a shutdown() of its own
Signal ==
  /\ mpc # "idle"
  /\ exitCode = "none"
  /\ nsig < MaxSignals
  /\ nsig' = nsig + 1
  /\ \E sig \in {"SIGINT", "SIGTERM"} :
       LET code == SignalExitCode(cmd.kind, sig) IN
       IF mpc = "config" THEN Becomes(ProcessExit(Here, code)) /\ mpc' = mpc
       ELSE IF cmd.kind = "dev" /\ mpc \in {"repl", "execute", "shutdown"}
       THEN LET c == ShutdownThenExit(Here, code)
                e == IF c.eng.isShuttingDown THEN c
                     ELSE ShutdownThenExit([c EXCEPT !.eng.isShuttingDown = TRUE], "0")
            IN IF mpc = "repl" /\ rl = "open"
               THEN Becomes(ShutdownThenExit(e, "0")) /\ mpc' = "shutdown"
               ELSE Becomes(e) /\ mpc' = mpc
       ELSE Becomes(ShutdownThenExit(Here, code)) /\ mpc' = mpc
  /\ UNCHANGED << managerVars, shutdownVars, callVars, loaderVars, schemaVars, serveVars, cmd, timer >>

\* a disconnect() awaited by engine.shutdown() resolves: the engine is cleaned
\* up and the caller exits
ShutdownSettle ==
  /\ exitCode = "none"
  /\ \E i \in 1..Len(pend) :
       Becomes([Here EXCEPT !.eng = CleanedUp(@),
                            !.exit = pend[i],
                            !.pend = SubSeq(pend, 1, i - 1) \o SubSeq(pend, i + 1, Len(pend))])
  /\ UNCHANGED << managerVars, shutdownVars, callVars, loaderVars, schemaVars, serveVars, cmd, mpc, timer, nsig >>

\* ------------------------------------------------------------------ the engine's lifecycle calls
\* a shutdown() call that has returned
Returned0 == [pc |-> "done", i |-> 0, att |-> 0]

\* loadTools has returned: createAgent, and initialize() sets initialized
InitializeReturns ==
  /\ cpc = "done"
  /\ cres = "resolved"
  /\ mcpManager
  /\ ~eng.initialized
  /\ sdc = << >>
  /\ eng' = [eng EXCEPT !.llm = TRUE, !.tools = TRUE, !.manager = TRUE, !.agent = TRUE,
                         !.initialized = TRUE]
  /\ trace' = Append(trace, "initialized")
  /\ UNCHANGED << managerVars, shutdownVars, callVars, loaderVars, schemaVars, serveVars,
                  cmd, mpc, pend, timer, exitCode, nsig, rl >>

\* disconnect() of call k returns (the Map and the tool list are cleared) and
\* shutdown()'s continuation drops the manager, the agent, the LLM and the tools
ShutdownReturns(atts, calls, k) ==
  /\ attempts' = atts
  /\ connections' = << >>
  /\ tools' = << >>
  /\ listed' = [ok |-> {}, fail |-> {}]
  /\ registry' = << >>
  /\ mcpManager' = FALSE
  /\ eng' = CleanedUp(eng)
  /\ trace' = Append(trace, "cleaned")
  /\ sdc' = [calls EXCEPT ![k] = Returned0]

\* call k's for loop over the live Map from position i on: disconnectServer up
\* to its await of client.close(), or the end of the loop
ShutdownTeardownFrom(atts, calls, k, i) ==
  IF i > Len(connections)
  THEN ShutdownReturns(atts, calls, k)
  ELSE /\ attempts' = [atts EXCEPT ![connections[i].att].td = Append(@, "close")]
       /\ sdc' = [calls EXCEPT ![k] = [pc |-> "close", i |-> i, att |-> connections[i].att]]
       /\ UNCHANGED << connections, tools, listed, registry, mcpManager, eng, trace >>

\* connect() has returned to the initialize() in flight, whose loadTools,
\* createAgent and last statements follow without waiting for any event
Continuing == ipc # 0 /\ ipc = nconn /\ cpc = "done"

\* engine.shutdown(): with a manager disconnect() is called, without one the
\* cleanup runs at once
ShutdownCall ==
  /\ Len(sdc) < MaxShutdowns
  /\ ~Continuing
  /\ IF mcpManager
     THEN ShutdownTeardownFrom(attempts, Append(sdc, Returned0), Len(sdc) + 1, 1)
     ELSE /\ eng' = CleanedUp(eng)
          /\ registry' = << >>
          /\ trace' = Append(trace, "cleaned")
          /\ sdc' = Append(sdc, Returned0)
          /\ UNCHANGED << attempts, connections, tools, listed, mcpManager >>
  /\ UNCHANGED << servers, connectVars, disconnectVars, nev, ipc >>
  /\ UNCHANGED << callVars, loaderVars, schemaVars, serveVars,
                  cmd, mpc, pend, timer, exitCode, nsig, rl >>

\* engine.shutdown() is called on an initialized engine, or again while an
\* earlier call is awaiting disconnect()
ShutdownInitialized ==
  /\ cpc = "done"
  /\ eng.initialized \/ sdc # << >>
  /\ ShutdownCall

\* call k's client.close() settles; transport.close() is called next
ShutdownCloseSettle(k) ==
  /\ sdc[k].pc = "close"
  /\ ~Continuing
  /\ \E ok \in BOOLEAN :
       LET n == sdc[k].att
           atts == [attempts EXCEPT ![n].tp = IF ok /\ @ = "running" THEN "exited" ELSE @]
       IN IF ok \/ CloseErrorCaught
          THEN /\ attempts' = [atts EXCEPT ![n].td = Append(@, "tclose")]
               /\ sdc' = [sdc EXCEPT ![k].pc = "tclose"]
               /\ UNCHANGED << connections, tools, listed, registry, mcpManager, eng, trace >>
          ELSE ShutdownTeardownFrom(atts, sdc, k, sdc[k].i + 1)
  /\ UNCHANGED << servers, connectVars, disconnectVars, nev, ipc >>
  /\ UNCHANGED << callVars, loaderVars, schemaVars, serveVars,
                  cmd, mpc, pend, timer, exitCode, nsig, rl >>

\* call k's transport.close() settles; the child is killed, the connection
\* marked, and the loop goes on
ShutdownTransportCloseSettle(k) ==
  /\ sdc[k].pc = "tclose"
  /\ ~Continuing
  /\ \E ok \in BOOLEAN :
       LET n == sdc[k].att
           atts == [attempts EXCEPT ![n].tp = IF ok /\ @ = "running" THEN "exited" ELSE @]
       IN IF ok \/ TransportCloseErrorCaught
          THEN ShutdownTeardownFrom([atts EXCEPT ![n] = KillAndMark(@)], sdc, k, sdc[k].i + 1)
          ELSE ShutdownTeardownFrom(atts, sdc, k, sdc[k].i + 1)
  /\ UNCHANGED << servers, connectVars, disconnectVars, nev, ipc >>
  /\ UNCHANGED << callVars, loaderVars, schemaVars, serveVars,
                  cmd, mpc, pend, timer, exitCode, nsig, rl >>

\* engine.initialize() up to loadTools' await of loadLocalTools: nothing when
\* already initialized; initializeLLM throws without an API key; else the LLM
\* is created and this.tools reset.  (The model holds the state of one manager
\* object: an initialize() that goes on to construct a manager is followed
\* only where no earlier manager has state left.)
InitializeCall ==
  /\ ipc = 0
  /\ ~eng.initialized
  /\ ~ApiKeyMissing(cmd)
  /\ nconn < MaxConnects
  /\ \A k \in 1..Len(sdc) : sdc[k].pc = "done"
  /\ ~mcpManager /\ connections = << >> /\ tools = << >>
  /\ eng' = [eng EXCEPT !.llm = TRUE]
  /\ registry' = << >>
  /\ ipc' = nconn + 1
  /\ UNCHANGED << servers, attempts, connections, tools, connectVars, disconnectVars,
                  mcpManager, listed, nev, sdc >>
  /\ UNCHANGED << callVars, loaderVars, schemaVars, serveVars,
                  cmd, mpc, trace, pend, timer, exitCode, nsig, rl >>

\* loadLocalTools resolves: the local tools are pushed, the manager is
\* constructed and connect() called
LoadToolsConnect == ipc = nconn + 1 /\ ConnectStart

\* the rest of initialize() after connect(): a rejected connect() or a throwing
\* getTools() rejects it, createAgent throws without an LLM or when
\* createDeepAgent fails; else the agent is set and then initialized
InitializeSettle ==
  /\ Continuing
  /\ ipc' = 0
  /\ IF cres = "resolved" /\ mcpManager /\ eng.llm /\ cmd.agentOk
     THEN /\ eng' = [eng EXCEPT !.agent = TRUE, !.tools = TRUE, !.manager = TRUE,
                                !.initialized = TRUE]
          /\ trace' = Append(trace, "initialized")
     ELSE UNCHANGED << eng, trace >>
  /\ UNCHANGED << managerVars, sdc, callVars, loaderVars, schemaVars, serveVars,
                  cmd, mpc, pend, timer, exitCode, nsig, rl >>

\* runTask(task) or runInteractive(): 'Engine not initialized' unless the
\* agent and the LLM are set; else runTask invokes the agent and
\* runInteractive opens the prompt
RunResult(api, e) ==
  IF ~e.agent \/ ~e.llm THEN "notInitialized"
  ELSE IF api = "runTask" THEN "invoke" ELSE "interactive"

RunResults == {"notInitialized", "invoke", "interactive"}

RunCall ==
  /\ ~Continuing
  /\ Cardinality({j \in 1..Len(trace) : trace[j] \in RunResults}) < MaxRuns
  /\ \E api \in {"runTask", "runInteractive"} :
       trace' = Append(trace, RunResult(api, eng))
  /\ UNCHANGED << managerVars, shutdownVars, callVars, loaderVars, schemaVars, serveVars,
                  cmd, mpc, eng, pend, timer, exitCode, nsig, rl >>

\* ------------------------------------------------------------------ initial states
ManagerIdle ==
  /\ attempts = <<>>
  /\ connections = <<>>
  /\ tools = <<>>
  /\ cpc = "idle" /\ ci = 0 /\ li = 0 /\ latt = 0 /\ cres = "none" /\ nconn = 0
  /\ dpc = "idle" /\ di = 0 /\ datt = 0 /\ ndisc = 0
  /\ registry = <<>>
  /\ mcpManager = FALSE
  /\ listed = [ok |-> {}, fail |-> {}]
  /\ nev = 0

CallIdle == call = NoCall /\ ncall = 0

LoaderIdle ==
  /\ lpc = "idle" /\ fi = 0 /\ ltools = << >> /\ loadedNames = {}
  /\ linv = NoInvoke
  /\ out = NoOutput

SchemaIdle ==
  /\ wire = NoWire /\ back = << >>
  /\ toolInfos = << >> /\ spc = "idle" /\ serverTools = NoLoad

ServeIdle ==
  /\ vpc = "idle" /\ request = NoRequest /\ resp = NoResponse /\ invoked = {} /\ nreq = 0

CommandIdle ==
  /\ mpc = "idle" /\ eng = NewEngine /\ trace = << >> /\ pend = << >>
  /\ timer = "none" /\ exitCode = "none" /\ nsig = 0
  /\ rl = "none"
  /\ sdc = << >>
  /\ ipc = 0

NoCommand == [kind |-> "start", timeout |-> FALSE, configTimeout |-> FALSE, apiKey |-> TRUE,
              hasServers |-> FALSE, agentOk |-> TRUE]

\* no command is run
RolesIdle == ServeIdle /\ cmd = NoCommand /\ CommandIdle

\* a manager constructed for a configuration
Init ==
  /\ servers \in Configs
  /\ ManagerIdle
  /\ CallIdle
  /\ dir = [exists |-> FALSE, files |-> << >>]
  /\ LoaderIdle
  /\ zschema = << >>
  /\ SchemaIdle
  /\ RolesIdle

\* loadLocalTools about to be called on a directory
InitLoader ==
  /\ servers = << >>
  /\ ManagerIdle
  /\ CallIdle
  /\ dir \in Dirs
  /\ LoaderIdle
  /\ zschema = << >>
  /\ SchemaIdle
  /\ RolesIdle

\* a tool's schema about to be advertised
InitSchema ==
  /\ servers = << >>
  /\ ManagerIdle
  /\ CallIdle
  /\ dir = [exists |-> FALSE, files |-> << >>]
  /\ LoaderIdle
  /\ zschema \in Schemas
  /\ SchemaIdle
  /\ RolesIdle

\* What the environment and the pending awaits can do, whoever calls connect()
Settle ==
  \/ HandshakeResolve
  \/ HandshakeReject
  \/ ListSettle
  \/ DisconnectStart
  \/ CloseSettle
  \/ TransportCloseSettle
  \/ \E n \in 1..Len(attempts) : ChildExit(n)
  \/ \E n \in 1..Len(attempts) : ChildError(n)
  \/ \E n \in 1..Len(attempts) : TransportExit(n)

\* The program's use of the manager: engine.loadTools constructs it and calls
\* connect() once; engine.shutdown calls disconnect()
FirstConnect == nconn = 0 /\ ConnectStart

Next == FirstConnect \/ Settle

Spec == Init /\ [][Next]_vars

\* The manager as a class: connect() may be called again on the same object
NextReuse == ConnectStart \/ Settle

SpecReuse == Init /\ [][NextReuse]_vars

\* The manager reused as its contract allows: a fresh connect() once an
\* earlier disconnect() has returned
FreshConnect == nconn > 0 /\ ndisc > 0 /\ dpc = "done" /\ ConnectStart

NextFresh == FirstConnect \/ FreshConnect \/ Settle

SpecFresh == Init /\ [][NextFresh]_vars

\* engine.shutdown() called from a signal handler while initialize() is
\* awaiting connect()
ShutdownDuringConnect ==
  cpc \in {"handshake", "list"} /\ ndisc = 0 /\ DisconnectStart

NextOverlap ==
  \/ FirstConnect
  \/ ShutdownDuringConnect
  \/ HandshakeResolve
  \/ HandshakeReject
  \/ ListSettle
  \/ CloseSettle
  \/ TransportCloseSettle
  \/ \E n \in 1..Len(attempts) : ChildExit(n)
  \/ \E n \in 1..Len(attempts) : ChildError(n)
  \/ \E n \in 1..Len(attempts) : TransportExit(n)

SpecOverlap == Init /\ [][NextOverlap]_vars

\* An engine initialized with its manager, then shut down by calls that may
\* overlap (the command's and the engine's signal handlers, the REPL's end)
NextShutdown ==
  \/ FirstConnect
  \/ HandshakeResolve
  \/ HandshakeReject
  \/ ListSettle
  \/ InitializeReturns
  \/ ShutdownInitialized
  \/ \E k \in 1..Len(sdc) : ShutdownCloseSettle(k)
  \/ \E k \in 1..Len(sdc) : ShutdownTransportCloseSettle(k)
  \/ \E n \in 1..Len(attempts) : ChildExit(n)
  \/ \E n \in 1..Len(attempts) : ChildError(n)

SpecShutdown == Init /\ [][NextShutdown]_vars

\* An engine and the calls a client makes on it in any order: initialize(),
\* runTask(), runInteractive(), shutdown()
EngineConfigs ==
  {c \in Commands : c.kind = "start" /\ ~c.timeout /\ ~c.configTimeout /\ c.hasServers}

InitEngine ==
  /\ servers \in {c \in Configs : Len(c) <= 1}
  /\ ManagerIdle
  /\ CallIdle
  /\ dir = [exists |-> FALSE, files |-> << >>]
  /\ LoaderIdle
  /\ zschema = << >>
  /\ SchemaIdle
  /\ ServeIdle
  /\ cmd \in EngineConfigs
  /\ CommandIdle

NextEngine ==
  \/ InitializeCall
  \/ LoadToolsConnect
  \/ HandshakeResolve
  \/ HandshakeReject
  \/ ListSettle
  \/ InitializeSettle
  \/ RunCall
  \/ ShutdownCall
  \/ \E k \in 1..Len(sdc) : ShutdownCloseSettle(k)
  \/ \E k \in 1..Len(sdc) : ShutdownTransportCloseSettle(k)

SpecEngine == InitEngine /\ [][NextEngine]_vars

\* The engine with its agent invoking remote tools
NextCalls == Next \/ InvokeStart \/ CallSettle

SpecCalls == Init /\ [][NextCalls]_vars

\* The local tool loader and the tools it returns
NextLoader == LoadLocalToolsStart \/ LoadToolFromFileSettle \/ LocalInvoke

SpecLoader == InitLoader /\ [][NextLoader]_vars

\* The schema translator
NextSchema == ToWire \/ ToStructured

SpecSchema == InitSchema /\ [][NextSchema]_vars

\* the serve command about to run in a project
InitServe ==
  /\ servers \in { << >>, << "a" >> }
  /\ ManagerIdle
  /\ CallIdle
  /\ dir \in Dirs
  /\ LoaderIdle
  /\ zschema = << >>
  /\ SchemaIdle
  /\ ServeIdle
  /\ cmd = NoCommand
  /\ CommandIdle

\* The provider role: serveCommand, the loader it calls, and its handlers
NextServe ==
  \/ ServeStart
  \/ ServeConfigSettle
  \/ LoadToolFromFileSettle
  \/ ServeToolsLoaded
  \/ CallToolRequest
  \/ CallToolSettle

SpecServe == InitServe /\ [][NextServe]_vars

\* the list-tools answer of server "a" about to arrive in loadAllTools
InitRemoteSchema ==
  /\ servers = << "a" >>
  /\ ManagerIdle
  /\ CallIdle
  /\ dir = [exists |-> FALSE, files |-> << >>]
  /\ LoaderIdle
  /\ zschema = << >>
  /\ wire = NoWire /\ back = << >>
  /\ toolInfos \in ToolInfos(MaxToolInfos) /\ spc = "list" /\ serverTools = NoLoad
  /\ RolesIdle

\* The schemas of a server's tools converted while its listing is loaded
NextRemoteSchema == ListToolsResolve \/ LoadServerToolsSettle

SpecRemoteSchema == InitRemoteSchema /\ [][NextRemoteSchema]_vars

\* a start or dev command about to run
InitCommand ==
  /\ servers = << >>
  /\ ManagerIdle
  /\ CallIdle
  /\ dir = [exists |-> FALSE, files |-> << >>]
  /\ LoaderIdle
  /\ zschema = << >>
  /\ SchemaIdle
  /\ ServeIdle
  /\ cmd \in Commands
  /\ CommandIdle

\* The command orchestrators and the engine's lifecycle
NextCommand ==
  \/ CommandStart
  \/ ConfigSettle
  \/ LocalSettle
  \/ ConnectSettle
  \/ TaskResolve
  \/ TaskReject
  \/ DeadlineFires
  \/ ReplTask
  \/ ExecuteSettle
  \/ InputClose
  \/ ReplExit
  \/ Signal
  \/ ShutdownSettle

SpecCommand == InitCommand /\ [][NextCommand]_vars

\* the continuations the event loop runs by itself once the awaited promise has
\* settled; signals, the user's input and the end of the input stream are the
\* environment's and may never come
CommandProgress ==
  \/ CommandStart
  \/ ConfigSettle
  \/ LocalSettle
  \/ ConnectSettle
  \/ ExecuteSettle
  \/ ShutdownSettle

SpecCommandLive == InitCommand /\ [][NextCommand]_vars /\ WF_vars(CommandProgress)

\* ------------------------------------------------------------------ claims
Prefix(name) == "mcp_" \o name \o "_"

NoToolOf(tls, name) == \A k \in 1..Len(tls) : ~StartsWith(tls[k].name, Prefix(name))

ConnOf(k) == attempts[connections[k].att]

FullTeardown == <<"close", "tclose", "kill">>

\* connect() has returned
Returned == cpc = "done" /\ cres = "resolved"

\* connect() has returned on a manager no process of which has exited and
\* on which disconnect() was never called
QuietReturn == Returned /\ nev = 0 /\ ndisc = 0

\* C1: a connection with connected = false has no mcp_<name>_ tool in getTools()
C1_DisconnectedHasNoTools ==
  \A k \in 1..Len(connections) :
    ~ConnOf(k).connected => NoToolOf(GetTools, connections[k].name)

\* C2: once the exit of a connected server's process has been handled, the
\* engine's registry holds none of that server's tools
C2_RegistryFollowsDisconnect ==
  [][\A n \in 1..Len(attempts) :
       ( /\ attempts[n].child = "running"
         /\ attempts'[n].child = "exited"
         /\ IndexOf(connections, attempts[n].name) # 0
         /\ ConnOf(IndexOf(connections, attempts[n].name)).connected )
       => NoToolOf(registry', attempts[n].name)]_vars

\* the names connect() must have produced: for every attempt whose listing
\* succeeded, mcp_<server>_<tool> for each listed tool, in attempt order
RECURSIVE ListedNames(_)
ListedNames(n) ==
  IF n = 0 THEN <<>>
  ELSE ListedNames(n - 1) \o
       ( IF n \in listed.ok
         THEN [k \in 1..Len(RemoteListing(attempts[n].name)) |->
                 "mcp_" \o attempts[n].name \o "_" \o RemoteListing(attempts[n].name)[k]]
         ELSE <<>> )

\* C3: connect() never rejects; when it returns, every configured server was
\* attempted; and unless a process exited or disconnect() ran meanwhile,
\* hasConnections() holds iff some handshake succeeded, and getTools() is exactly
\* the listed tools of the servers that connected, each mcp_<server>_<tool>
C3_PartialFailure ==
  /\ cres # "rejected"
  /\ Returned =>
       /\ Len(attempts) = Len(servers)
       /\ \A i \in 1..Len(servers) : attempts[i].name = servers[i] /\ attempts[i].hs # "pending"
  /\ QuietReturn =>
       /\ HasConnections <=> (\E n \in 1..Len(attempts) : attempts[n].hs = "ok")
       /\ listed.ok \cup listed.fail = {n \in 1..Len(attempts) : attempts[n].hs = "ok"}
       /\ GetToolNames(GetTools) = ListedNames(Len(attempts))

C3_Witness ==
  /\ QuietReturn
  /\ Len(servers) = 2
  /\ attempts[1].child = "errored"
  /\ attempts[2].hs = "ok"
  /\ 2 \in listed.ok
  /\ HasConnections
  /\ Len(tools) > 0

\* C4: after connect() returned, getConnectionStatus() has an entry for every
\* attempted server, false for one whose spawn or handshake failed
C4_StatusCoversAttempted ==
  (cpc = "done" /\ cres = "resolved") =>
     \A n \in 1..Len(attempts) :
       /\ attempts[n].name \in DOMAIN GetConnectionStatus
       /\ attempts[n].hs = "fail" => ~GetConnectionStatus[attempts[n].name]

\* C5: teardown is total: for every tracked connection the steps close,
\* transport close, kill are attempted in this order whatever the outcome of
\* each; a running child is sent SIGTERM; when disconnect() returns the Map and
\* the tool list are empty
C5_TeardownTotal ==
  /\ [](\A n \in 1..Len(attempts) :
          /\ \E j \in 0..3 : attempts[n].td = SubSeq(FullTeardown, 1, j)
          /\ ~(dpc \in {"close", "tclose"} /\ datt = n) =>
                attempts[n].td \in {<<>>, FullTeardown}
          /\ attempts[n].td = FullTeardown =>
                /\ ~attempts[n].connected
                /\ attempts[n].child = "running" => attempts[n].killed)
  /\ [][(dpc # "done" /\ dpc' = "done") =>
          /\ connections' = <<>>
          /\ tools' = <<>>
          /\ DOMAIN GetConnectionStatus' = {}
          /\ ~HasConnections'
          /\ \A k \in 1..Len(connections) :
               attempts'[connections[k].att].td = FullTeardown]_vars

\* both close steps threw (the transport's process is still running) and the
\* child was sent SIGTERM all the same
C5_Witness ==
  /\ dpc = "done"
  /\ connections = <<>>
  /\ \E n \in 1..Len(attempts) :
       /\ attempts[n].td = FullTeardown
       /\ attempts[n].tp = "running"
       /\ attempts[n].killed

\* C6: one process per server: the process whose exit is observed and which
\* disconnect() kills is the process the client talks to
C6_OneProcessPerServer ==
  \A n \in 1..Len(attempts) : attempts[n].tpid = attempts[n].pid

\* C7: once the process a connection's client talks to has exited and nothing
\* is in flight, the connection is reported disconnected and has no tools
C7_TransportExitDisconnects ==
  (cpc \in {"idle", "done"} /\ dpc \in {"idle", "done"}) =>
     \A k \in 1..Len(connections) :
       ConnOf(k).tp = "exited" =>
         /\ ~GetConnectionStatus[connections[k].name]
         /\ NoToolOf(GetTools, connections[k].name)

\* C8: a server reported false is not reported true by the next state (an
\* entry disappears only when disconnect() returns)
C8_DisconnectedTerminal ==
  [][\A s \in DOMAIN GetConnectionStatus :
       ~GetConnectionStatus[s] =>
          ~(s \in DOMAIN GetConnectionStatus' /\ GetConnectionStatus'[s])]_vars

\* C9: a connection is saved and connected only after its handshake resolved;
\* list-tools is only issued on a client whose handshake resolved; an attempt
\* whose handshake rejected is never saved, connected or listed
C9_HandshakeFirst ==
  /\ \A k \in 1..Len(connections) : ConnOf(k).hs = "ok"
  /\ cpc = "list" => attempts[latt].hs = "ok"
  /\ \A n \in 1..Len(attempts) :
       /\ attempts[n].connected => attempts[n].hs = "ok"
       /\ n \in listed.ok \cup listed.fail => attempts[n].hs = "ok"
       /\ attempts[n].hs = "fail" =>
            /\ ~attempts[n].connected
            /\ \A k \in 1..Len(connections) : connections[k].att # n
            /\ ~(cpc = "list" /\ latt = n)

C9_Witness ==
  /\ Len(attempts) = 2
  /\ attempts[1].hs = "fail"
  /\ attempts[2].hs = "ok"
  /\ attempts[2].connected
  /\ cpc = "list"
  /\ latt = 2

\* the tools of one server in the tool list, in order
ToolsOf(tls, name) == SelectSeq(tls, LAMBDA t : t.server = name)

\* C10: a failing list-tools round trip leaves the tool list as it was and the
\* loop goes on to the next connected server; connect() does not reject; when it
\* has returned every connected server was asked, one whose listing failed has
\* no tools and (no process having exited) one whose listing succeeded has all
\* of its tools, in listing order
C10_ListingIsolated ==
  /\ [](cres # "rejected")
  /\ [](Returned =>
          \A k \in 1..Len(connections) :
            /\ ConnOf(k).connected => connections[k].att \in listed.ok \cup listed.fail
            /\ connections[k].att \in listed.fail =>
                 ToolsOf(GetTools, connections[k].name) = <<>>
            /\ (connections[k].att \in listed.ok /\ nev = 0) =>
                 ToolsOf(GetTools, connections[k].name)
                   = ServerTools(connections[k].name, RemoteListing(connections[k].name)))
  /\ [][(listed'.fail # listed.fail /\ listed'.fail # {}) =>
          /\ tools' = tools
          /\ cres' # "rejected"
          /\ NextConnected(connections, attempts, li) # 0 =>
               /\ cpc' = "list"
               /\ li' = NextConnected(connections, attempts, li)]_vars

C10_Witness ==
  /\ QuietReturn
  /\ Len(connections) = 2
  /\ connections[1].att \in listed.fail
  /\ connections[2].att \in listed.ok
  /\ Len(tools) > 0

\* C11: the registry the engine builds never holds two tools with the same name
C11_RegistryNamesUnique ==
  \A i, j \in 1..Len(registry) : registry[i].name = registry[j].name => i = j

\* the tools of the configured servers 1..i, grouped by server in declaration
\* order, each group in the order of the server's listing
RECURSIVE DeclaredTools(_)
DeclaredTools(i) ==
  IF i = 0 THEN << >>
  ELSE DeclaredTools(i - 1) \o
       [k \in 1..Len(RemoteListing(servers[i])) |->
          [name |-> "mcp_" \o servers[i] \o "_" \o RemoteListing(servers[i])[k],
           server |-> servers[i]]]

\* s can be obtained from t by deleting elements
RECURSIVE IsSubseq(_, _)
IsSubseq(s, t) ==
  IF s = << >> THEN TRUE
  ELSE IF t = << >> THEN FALSE
  ELSE IF Head(s) = Head(t) THEN IsSubseq(Tail(s), Tail(t))
  ELSE IsSubseq(s, Tail(t))

C13_DisconnectPurgesOnlyOwn ==
  [][\A n \in 1..Len(attempts) :
       ( /\ attempts[n].child \in {"running", "failed"}
         /\ attempts'[n].child \in {"exited", "errored"} )
       => \A k \in 1..Len(connections) :
            IF connections[k].name = attempts[n].name
            THEN ToolsOf(tools', connections[k].name) = << >>
            ELSE /\ ToolsOf(tools', connections[k].name) = ToolsOf(tools, connections[k].name)
                 /\ attempts'[connections[k].att].connected
                      = attempts[connections[k].att].connected]_vars

\* the strings a remote call's result can be rendered to
ResultTexts == { "r1", "r1\nr2", "{ \"k\": 1 }" }

\* C14: the invoke of a remote tool never rejects, whether its server's process
\* exits or disconnect() runs while the call is in flight or the call starts
\* after the server was disconnected: it resolves to the result's text or to a
\* string that begins with "Error:" and names the tool
C14_RemoteInvokeNeverRejects ==
  /\ call.st # "rejected"
  /\ call.st = "resolved" =>
       /\ call.v.t = "string"
       /\ \/ call.v.s \in ResultTexts
          \/ StartsWith(call.v.s, "Error:") /\ Includes(call.v.s, call.name)
       /\ (call.late /\ call.v.s \in ResultTexts) => attempts[call.att].tp # "failed"

C14_Witness ==
  /\ call.st = "resolved"
  /\ call.raced
  /\ ndisc > 0
  /\ attempts[call.att].tp = "exited"
  /\ StartsWith(call.v.s, "Error:")

C16_LocalResultIsString ==
  linv.st = "resolved" => linv.v.t = "string"

\* the candidates a module offers: the elements of an exported array or the
\* directly exported object, then the object assembled from the named exports
Candidates(m) ==
  ( IF m.default.kind = "arr" THEN m.default.items
    ELSE IF m.default.kind = "obj" THEN << m.default >>
    ELSE << >> ) \o << m.named >>

WellShaped(c) ==
  c.kind = "obj" /\ c.name # "" /\ c.description /\ c.schema /\ c.func

\* the names defined by the modules of files 1..i that load, one per module
\* (its first candidate of the required shape), without repetitions, in
\* first-seen order
RECURSIVE FirstSeenNames(_)
FirstSeenNames(i) ==
  IF i = 0 THEN << >>
  ELSE LET m == dir.files[i]
           before == FirstSeenNames(i - 1)
           good == SelectSeq(Candidates(m), WellShaped)
       IN IF m.fails \/ good = << >> THEN before
          ELSE IF \E k \in 1..Len(before) : before[k] = good[1].name THEN before
          ELSE Append(before, good[1].name)

\* C17: loadLocalTools returns one tool per distinct valid name defined by the
\* modules of the directory, whether exported directly, in an array or through
\* named exports, in first-seen scan order; none when the directory does not exist
C17_OnePerDistinctName ==
  lpc = "done" =>
    /\ ~dir.exists => ltools = << >>
    /\ [k \in 1..Len(ltools) |-> ltools[k].name] = FirstSeenNames(Len(dir.files))

\* the files whose module yields a definition with the given name
FilesDefining(name) ==
  { i \in 1..Len(dir.files) :
      /\ LoadToolFromFile(dir.files[i]).kind = "obj"
      /\ LoadToolFromFile(dir.files[i]).name = name }

\* C18: when several scanned files define a tool of the same name, exactly one
\* tool of that name is returned, it is the definition of the first such file,
\* and a later duplicate neither replaces it nor changes its position
C18_FirstDuplicateWins ==
  /\ [](lpc = "done" =>
          \A name \in {"w", "x", "y", "z"} :
            FilesDefining(name) # {} =>
              /\ Cardinality({ k \in 1..Len(ltools) : ltools[k].name = name }) = 1
              /\ \A k \in 1..Len(ltools) :
                   ltools[k].name = name =>
                     /\ \A i \in FilesDefining(name) : ltools[k].file <= i
                     /\ ltools[k].id = LoadToolFromFile(dir.files[ltools[k].file]).id)
  /\ [][(lpc = "load" /\ \E k \in 1..Len(ltools) : fi \in FilesDefining(ltools[k].name))
          => ltools' = ltools]_vars

C18_Witness ==
  /\ lpc = "done"
  /\ FilesDefining("x") = {1, 2}
  /\ LoadToolFromFile(dir.files[1]).id # LoadToolFromFile(dir.files[2]).id
  /\ Len(ltools) = 1
  /\ ltools[1].id = "A"

RoundTripSchema ==
  << [key |-> "a", field |-> [typeName |-> "ZodString", inner |-> "", description |-> ""]],
     [key |-> "b", field |-> [typeName |-> "ZodOptional", inner |-> "ZodNumber",
                              description |-> ""]] >>

\* C20: for {a: required string, b: optional number} the wire form has required
\* = ["a"] and types a: string, b: number; converted back, a is required, b is
\* optional, and both kinds are preserved
C20_SchemaRoundTrip ==
  zschema = RoundTripSchema =>
    /\ wire # NoWire =>
         /\ wire.hasRequired /\ wire.required = << "a" >>
         /\ [k \in 1..Len(wire.properties) |-> wire.properties[k].type]
              = << "string", "number" >>
    /\ back # << >> =>
         /\ back[1].field.typeName = "ZodString"
         /\ back[2].field.typeName = "ZodOptional"
         /\ back[2].field.inner = "ZodNumber"

\* the keys listed as required in the wire form
WireRequired ==
  IF wire.hasRequired THEN { wire.required[j] : j \in 1..Len(wire.required) } ELSE {}

\* C21: in the wire form of a structured schema a field is listed as required
\* if and only if it is neither optional nor given a default
C21_RequiredIffPlain ==
  wire # NoWire =>
    \A k \in 1..Len(zschema) :
      zschema[k].key \in WireRequired
        <=> zschema[k].field.typeName \notin {"ZodOptional", "ZodDefault"}

\* C22: jsonSchemaToZod never throws, whatever wire schema the server sent: the
\* loading of a server's listing never rejects, every listed tool is loaded,
\* and a tool whose schema or properties map is absent gets the empty schema
C22_ConversionTotal ==
  /\ serverTools.st # "rejected"
  /\ spc = "done" =>
       /\ Len(tools) = Len(toolInfos)
       /\ \A k \in 1..Len(tools) :
            ("absent" \in DOMAIN toolInfos[k].inputSchema
               \/ ~toolInfos[k].inputSchema.hasProperties)
              => tools[k].schema = << >>

\* one text item that explains the failure
OneErrorText(r) ==
  /\ Len(r.content) = 1
  /\ r.content[1].type = "text"
  /\ r.content[1].text.t = "string"
  /\ StartsWith(r.content[1].text.s, "Error:")
  /\ Includes(r.content[1].text.s, r.name)

\* C23: in the provider role a call-tool request whose name matches no loaded
\* tool is answered with isError true and one explanatory text item, at once
\* and without any tool being invoked
C23_UnknownToolIsError ==
  /\ [](resp.st = "sent" /\ ~ToolMapHas(resp.name) =>
          /\ resp.isError
          /\ OneErrorText(resp)
          /\ resp.name \notin invoked)
  /\ [][nreq' = nreq + 1
          /\ ~ToolMapHas(IF request'.st = "pending" THEN request'.name ELSE resp'.name)
        => /\ request'.st = "none"
           /\ resp'.st = "sent" /\ resp'.isError /\ OneErrorText(resp')
           /\ invoked' = invoked]_vars

C23_Witness ==
  /\ vpc = "running"
  /\ Len(ltools) = 2
  /\ resp.st = "sent" /\ resp.name = "nope"
  /\ resp.isError
  /\ resp.content[1].text.s = "Error: Tool \"nope\" not found"
  /\ invoked = {}

\* C24: in the provider role a call-tool request whose tool's body throws is
\* answered with isError true and an explanatory text item
C24_FailingToolIsError ==
  resp.st = "sent" /\ resp.outcome.how = "throw" =>
    resp.isError /\ OneErrorText(resp)

\* C25: in serve mode nothing is ever written to stdout, the channel of the
\* protocol: every log line of the configuration loading, the tool loading
\* and the handlers goes to stderr
C25_StdoutClean ==
  vpc # "idle" => out.stdout = {}

\* the names the list-tools handler advertises
Advertised == { ListToolsResponse[k] : k \in 1..Len(ListToolsResponse) }

\* C26: the running provider exposes the federated registry: the configured
\* servers have been connected, and list-tools advertises, and call-tool can
\* dispatch to, every local tool and every tool of a connected server
C26_ServeFederates ==
  vpc = "running" =>
    /\ \A k \in 1..Len(ltools) : ltools[k].name \in Advertised
    /\ servers # << >> => cpc = "done"
    /\ \A k \in 1..Len(tools) : tools[k].name \in Advertised /\ ToolMapHas(tools[k].name)

\* the lifecycle step was taken before position i of the trace
Before(step, i) == \E j \in 1..(i - 1) : trace[j] = step

Took(step) == Before(step, Len(trace) + 1)

\* C27: in initialize() the LLM is created before local tools are loaded or
\* servers connected, loading and connecting have finished before the agent
\* is built, and the engine is initialized only after all three; when a step
\* fails (no API key, createDeepAgent throws) no later step runs and the
\* engine stays uninitialized
C27_LifecycleOrder ==
  /\ \A i \in 1..Len(trace) :
       /\ trace[i] \in {"local", "connect"} => Before("llm", i)
       /\ trace[i] = "connect" => Before("local", i)
       /\ trace[i] = "agent" =>
            /\ Before("llm", i) /\ Before("local", i)
            /\ cmd.hasServers => Before("connected", i)
            /\ Before("connect", i) => Before("connected", i)
       /\ trace[i] = "initialized" =>
            Before("llm", i) /\ Before("local", i) /\ Before("agent", i)
       /\ trace[i] = "initFailed" => i = Len(trace)
  /\ eng.initialized => Took("initialized")
  /\ Took("initFailed") => ~eng.initialized /\ ~Took("initialized")
  /\ ~cmd.apiKey => ~Took("llm") /\ ~Took("local") /\ ~Took("connect") /\ ~Took("agent")
  /\ ~cmd.agentOk => ~Took("agent") /\ ~Took("initialized")

C27_Witness ==
  /\ trace = << "llm", "local", "connect", "connected", "agent", "initialized" >>
  /\ eng.initialized

\* C28: whenever a start or dev command's process exits after connect() was
\* called, disconnect() was called before the exit
C28_TeardownReached ==
  exitCode # "none" /\ Took("connect") => Took("disconnect")

\* C29: in a start command with a deadline and no signal, when the deadline
\* fires before runTask resolves, engine.shutdown() is called, no result is
\* written and the exit code is 1; when runTask resolves first the result is
\* written, then shutdown is called, and the exit code is 0; a step of the
\* deadline's timer never touches the connection manager or a tool call
C29_DeadlineInOrchestrator ==
  /\ [](nsig = 0 /\ Took("timeout") =>
          /\ cmd.kind = "start" /\ cmd.timeout
          /\ Took("shutdown") /\ ~Took("output") /\ ~Took("resolved")
          /\ exitCode \in {"none", "1"}
          /\ pend = << >> => exitCode = "1")
  /\ [](nsig = 0 /\ Took("resolved") =>
          /\ \E i \in 1..Len(trace) :
               trace[i] = "shutdown" /\ Before("output", i) /\ ~Before("shutdown", i)
          /\ ~Took("timeout")
          /\ exitCode \in {"none", "0"}
          /\ pend = << >> => exitCode = "0")
  /\ [][timer' # timer => UNCHANGED << managerVars, shutdownVars, callVars >>]_vars

C29_Witness ==
  /\ cmd.timeout
  /\ nsig = 0
  /\ trace = << "llm", "local", "connect", "connected", "agent", "initialized",
                "timeout", "shutdown", "disconnect" >>
  /\ timer = "fired"
  /\ exitCode = "1"

\* C30: an exit or error of a server's process that was delivered while the
\* handshake was in progress is not lost: when the handshake then resolves,
\* the server is not recorded as connected, and while its process is gone no
\* recorded connection reports it connected
C30_ExitDuringHandshakeSeen ==
  /\ [](\A k \in 1..Len(connections) :
          ConnOf(k).child \in {"exited", "errored"} => ~ConnOf(k).connected)
  /\ [][\A n \in 1..Len(attempts) :
          attempts[n].hs = "pending" /\ attempts'[n].hs = "ok"
            /\ attempts[n].child \in {"exited", "errored"}
          => ~attempts'[n].connected]_vars

\* C31: after disconnect() and a fresh connect() on the same manager, the late
\* exit of a process of the torn-down generation changes neither the connected
\* flag of the new connection with the same server name nor the tools
C31_LateExitLeavesNewGeneration ==
  [][\A n \in 1..Len(attempts) :
       ( /\ attempts[n].td = FullTeardown
         /\ attempts[n].child = "running" /\ attempts'[n].child = "exited"
         /\ IndexOf(connections, attempts[n].name) # 0
         /\ connections[IndexOf(connections, attempts[n].name)].att # n )
       => /\ attempts'[connections[IndexOf(connections, attempts[n].name)].att].connected
               = ConnOf(IndexOf(connections, attempts[n].name)).connected
          /\ tools' = tools]_vars

\* C32: once connect() has returned and a disconnect() called after it has
\* returned too, every process a connectServer() run spawned has exited or
\* has been sent SIGTERM
C32_NoProcessLeaked ==
  [][(Returned /\ dpc # "done" /\ dpc' = "done") =>
       \A n \in 1..Len(attempts) :
         attempts'[n].child = "running" => attempts'[n].killed]_vars

\* C33: when engine.shutdown() ran while initialize() was connecting, then
\* once connect() and disconnect() have both returned no connection is
\* connected, the process of every server whose handshake succeeded has exited
\* or been sent SIGTERM, and the engine holds no tools and no manager
C33_ShutdownDuringConnectClean ==
  (cpc = "done" /\ dpc = "done") =>
    /\ ~HasConnections
    /\ \A n \in 1..Len(attempts) :
         attempts[n].hs = "ok" /\ attempts[n].child = "running" => attempts[n].killed
    /\ registry = << >>
    /\ ~mcpManager

\* C34: in interactive mode, once the input stream has ended without any signal,
\* the REPL loop eventually ends and engine.shutdown() is called (unless a signal
\* arrives first)
C34_InputCloseEndsLoop ==
  (rl = "closed" /\ nsig = 0) ~> (Took("shutdown") \/ nsig > 0)

\* how often step x occurs in a teardown history
Count(td, x) == Cardinality({j \in 1..Len(td) : td[j] = x})

AllShutdownsReturned ==
  /\ Len(sdc) >= 2
  /\ \A k \in 1..Len(sdc) : sdc[k].pc = "done"

\* C35: once two or more engine.shutdown() calls, overlapping or not, have all
\* returned, the engine is in the state a single call leaves (no tools, no
\* manager, no agent, not initialized; the manager's Map and tool list empty,
\* no connection connected, every live process of a connection signalled), and
\* kill('SIGTERM') is called on a running process only if that process has
\* not been sent the signal before
C35_OverlappingShutdowns ==
  /\ [](AllShutdownsReturned =>
          /\ registry = << >> /\ ~mcpManager
          /\ ~eng.tools /\ ~eng.manager /\ ~eng.agent /\ ~eng.llm /\ ~eng.initialized
          /\ connections = << >> /\ tools = << >>
          /\ \A n \in 1..Len(attempts) :
               /\ ~attempts[n].connected
               /\ attempts[n].hs = "ok" /\ attempts[n].child = "running"
                    => attempts[n].killed)
  /\ [][\A n \in 1..Len(attempts) :
          ( /\ attempts[n].child = "running"
            /\ Count(attempts'[n].td, "kill") > Count(attempts[n].td, "kill") )
          => /\ ~attempts[n].killed
             /\ attempts'[n].killed
             /\ Count(attempts'[n].td, "kill") = 1]_vars

\* two calls went through disconnectServer for the same connection at the same
\* time, and both have returned
C35_Witness ==
  /\ AllShutdownsReturned
  /\ \E n \in 1..Len(attempts) :
       /\ Count(attempts[n].td, "tclose") = 2
       /\ SubSeq(attempts[n].td, 1, 2) = << "close", "close" >>
       /\ Count(attempts[n].td, "kill") = 1
       /\ attempts[n].killed

RECURSIVE JoinLines(_)
JoinLines(texts) ==
  IF texts = << >> THEN ""
  ELSE IF Len(texts) = 1 THEN texts[1]
  ELSE texts[1] \o "\n" \o JoinLines(Tail(texts))

TextItems(content) == SelectSeq(content, LAMBDA item : item.type = "text")

TextsOf(content) == [j \in 1..Len(TextItems(content)) |-> TextItems(content)[j].text]

\* C38: when client.callTool resolved, the invoke returns the texts of the
\* result's text items joined with newlines, in order, if the content holds at
\* least one text item, and the serialized raw result only if it holds none
C38_TextItemsJoined ==
  (call.st = "resolved" /\ call.got) =>
    IF TextItems(call.result.content) # << >>
    THEN call.v = [t |-> "string", s |-> JoinLines(TextsOf(call.result.content))]
    ELSE call.v = JsonStringify([t |-> "object"])

\* the module's export yields a tool directly: a well-shaped object, or an
\* array with a well-shaped element
DirectlyYields(m) ==
  IF m.default.kind = "arr"
  THEN \E k \in 1..Len(m.default.items) : WellShaped(m.default.items[k])
  ELSE WellShaped(m.default)

\* C39: a file whose module loads and whose export does not directly yield a
\* valid tool (an array with no valid element included) is still accepted when
\* the object assembled from its exports name, description, schema and func is
\* valid: the returned list holds a tool of that name, from this file or from
\* an earlier one of the same name
C39_BothShapesTried ==
  lpc = "done" =>
    \A i \in 1..Len(dir.files) :
      LET m == dir.files[i] IN
      (~m.fails /\ ~DirectlyYields(m) /\ WellShaped(m.named)) =>
        \E k \in 1..Len(ltools) : ltools[k].name = m.named.name /\ ltools[k].file <= i

\* C40: a start command whose configuration sets runtime.timeout and that is
\* given no --timeout flag has its deadline armed while it awaits runTask
C40_ConfiguredTimeoutArmed ==
  (cmd.kind = "start" /\ cmd.configTimeout /\ ~cmd.timeout /\ mpc = "task")
    => timer = "armed"
====
